---- MODULE Spec2Model ----
(***************************************************************************)
(* Trace-id log correlation of OpsPilot (src/log_analyzer.py): the         *)
(* single-source extraction _parse_trace_logs, the directory merge         *)
(* _parse_trace_logs_from_directory with _sort_logs_by_timestamp, and the  *)
(* single-file branch of run_trace_analysis.                               *)
(*                                                                         *)
(* A line of text is a sequence of one-character strings, so that the      *)
(* regular expressions, the substring tests, str.startswith and str.strip  *)
(* of the source are computed on the characters, as the source does.       *)
(***************************************************************************)
EXTENDS Integers, Sequences, FiniteSets, TLC

VARIABLES
    pc,            \* position in the running function
    trace_id,      \* the identifier searched for
    lines,         \* f.readlines() of the source being extracted
    i,             \* loop index of _parse_trace_logs (0-based, as in the source)
    logs,          \* local list "logs" of _parse_trace_logs
    error_count,   \* ERROR counter of the running function
    warn_count,    \* WARN counter of the running function
    info_count,    \* INFO counter of the running function
    log_files,     \* directory mode: the contents of the enumerated files, in order
    file_idx,      \* directory mode: number of files already scanned
    file_results,  \* directory mode: what _parse_trace_logs returned (line 659) per file
    all_logs,      \* directory mode: local list "all_logs"
    source_files,  \* directory mode: local list "source_files" (paths)
    trace_logs,    \* the returned result dictionary, <<>> before the return
    target_kind,   \* run_trace_analysis: what log_path names: nothing, a file, a directory
    target_files,  \* run_trace_analysis: the log files at log_path, in path order
    calls,         \* run_trace_analysis: the methods it has called, in order
    console,       \* run_trace_analysis: what it has printed, in order
    log_content,   \* run_trace_analysis: the text handed to the language model
    tree,          \* _scan_log_files: the names of the files of each directory
    walk           \* _scan_log_files: the directories os.walk has still to visit

\* the variables of run_trace_analysis alone
run_vars == <<target_kind, target_files, calls, console, log_content>>

\* the variables of _scan_log_files alone
scan_vars == <<tree, walk>>

vars ==
    <<pc, trace_id, lines, i, logs, error_count, warn_count, info_count,
      log_files, file_idx, file_results, all_logs, source_files, trace_logs,
      target_kind, target_files, calls, console, log_content,
      tree, walk>>

(***************************************************************************)
(* Bounds of the model.                                                    *)
(***************************************************************************)
\* most lines in the source of a single-source extraction
MaxLines == 4
\* most files in a scanned directory
MaxFiles == 2
\* most lines in all the files of a scanned directory together
MaxDirLines == 3

(***************************************************************************)
(* Characters and strings.                                                 *)
(***************************************************************************)
Whitespace == {" ", "\t", "\n"}

Digits == <<"0", "1", "2", "3", "4", "5", "6", "7", "8", "9">>

UpperCase ==
    <<"A", "B", "C", "D", "E", "F", "G", "H", "I", "J", "K", "L", "M",
      "N", "O", "P", "Q", "R", "S", "T", "U", "V", "W", "X", "Y", "Z">>

LowerCase ==
    <<"a", "b", "c", "d", "e", "f", "g", "h", "i", "j", "k", "l", "m",
      "n", "o", "p", "q", "r", "s", "t", "u", "v", "w", "x", "y", "z">>

IsDigit(c) == \E d \in 1..10 : Digits[d] = c

DigitValue(c) == (CHOOSE d \in 1..10 : Digits[d] = c) - 1

\* the case folding re.IGNORECASE applies to a character
Lower(c) ==
    IF \E k \in 1..26 : UpperCase[k] = c
    THEN LowerCase[CHOOSE k \in 1..26 : UpperCase[k] = c]
    ELSE c

SetMax(S) == CHOOSE x \in S : \A y \in S : y <= x

\* s[p .. p+Len(pat)-1] = pat
IsPrefixAt(pat, s, p) ==
    /\ p + Len(pat) - 1 <= Len(s)
    /\ \A j \in 1..Len(pat) : s[p + j - 1] = pat[j]

\* str.startswith
StartsWith(s, prefix) == IsPrefixAt(prefix, s, 1)

\* the "in" test of two strings: pat in s
Contains(pat, s) == \E p \in 1..(Len(s) - Len(pat) + 1) : IsPrefixAt(pat, s, p)

\* str.strip(): leading and trailing whitespace removed
Strip(s) ==
    LET inked == {p \in 1..Len(s) : s[p] \notin Whitespace}
    IN  IF inked = {} THEN <<>>
        ELSE SubSeq(s, CHOOSE p \in inked : \A q \in inked : p <= q, SetMax(inked))

(***************************************************************************)
(* Regular expressions, as far as the source uses them: a pattern is a     *)
(* sequence of items, each a literal character, \d, a character set, \s*   *)
(* or \s+.                                                                 *)
(***************************************************************************)
Lit(c) == [kind |-> "lit", ch |-> c]

Lits(s) == [k \in 1..Len(s) |-> Lit(s[k])]

ReDigit == [kind |-> "digit"]

ReDigits(n) == [k \in 1..n |-> ReDigit]

ReSet(S) == [kind |-> "set", chars |-> S]

ReSpaces0 == [kind |-> "ws", least |-> 0]

ReSpaces1 == [kind |-> "ws", least |-> 1]

\* whether the one-character item accepts c; ic is re.IGNORECASE
ItemAccepts(item, c, ic) ==
    CASE item.kind = "lit" -> IF ic THEN Lower(item.ch) = Lower(c) ELSE item.ch = c
      [] item.kind = "digit" -> IsDigit(c)
      [] item.kind = "set" -> c \in item.chars
      [] OTHER -> FALSE

\* length of the run of whitespace that starts at s[p]
RECURSIVE SpaceRun(_, _)
SpaceRun(s, p) ==
    IF p <= Len(s) /\ s[p] \in Whitespace THEN 1 + SpaceRun(s, p + 1) ELSE 0

\* The match of items k.. of the pattern at s[p]: the index of the last
\* character matched (p - 1 for an empty match), or -1 when there is none.
\* \s* and \s+ are greedy and give characters back on failure.
RECURSIVE ReMatchEnd(_, _, _, _, _)
ReMatchEnd(pattern, k, s, p, ic) ==
    IF k > Len(pattern) THEN p - 1
    ELSE IF pattern[k].kind = "ws"
    THEN LET fits == {n \in pattern[k].least..SpaceRun(s, p) :
                         ReMatchEnd(pattern, k + 1, s, p + n, ic) # -1}
         IN  IF fits = {} THEN -1
             ELSE ReMatchEnd(pattern, k + 1, s, p + SetMax(fits), ic)
    ELSE IF p <= Len(s) /\ ItemAccepts(pattern[k], s[p], ic)
    THEN ReMatchEnd(pattern, k + 1, s, p + 1, ic)
    ELSE -1

\* re.search(pattern, s): match.group(0) of the leftmost match as <<text>>,
\* or <<>> for None
re_search(pattern, s, ic) ==
    LET starts == {p \in 1..(Len(s) + 1) : ReMatchEnd(pattern, 1, s, p, ic) # -1}
    IN  IF starts = {} THEN <<>>
        ELSE LET p == CHOOSE q \in starts : \A r \in starts : q <= r
             IN  <<SubSeq(s, p, ReMatchEnd(pattern, 1, s, p, ic))>>

(***************************************************************************)
(* LogAnalyzer._extract_timestamp and LogAnalyzer._extract_log_level.      *)
(***************************************************************************)
\* 'Unknown'
Unknown ==
    <<"U", "n", "k", "n", "o", "w", "n">>

\* \d{4}-\d{2}-\d{2}\s+\d{2}:\d{2}:\d{2}
PatternDateSpace ==
    ReDigits(4) \o <<Lit("-")>> \o ReDigits(2) \o <<Lit("-")>> \o ReDigits(2)
        \o <<ReSpaces1>> \o ReDigits(2) \o <<Lit(":")>> \o ReDigits(2)
        \o <<Lit(":")>> \o ReDigits(2)

\* \d{4}-\d{2}-\d{2}T\d{2}:\d{2}:\d{2}
PatternDateT ==
    ReDigits(4) \o <<Lit("-")>> \o ReDigits(2) \o <<Lit("-")>> \o ReDigits(2)
        \o <<Lit("T")>> \o ReDigits(2) \o <<Lit(":")>> \o ReDigits(2)
        \o <<Lit(":")>> \o ReDigits(2)

\* \d{2}/\d{2}/\d{4}\s+\d{2}:\d{2}:\d{2}
PatternDateSlash ==
    ReDigits(2) \o <<Lit("/")>> \o ReDigits(2) \o <<Lit("/")>> \o ReDigits(4)
        \o <<ReSpaces1>> \o ReDigits(2) \o <<Lit(":")>> \o ReDigits(2)
        \o <<Lit(":")>> \o ReDigits(2)

\* the list "patterns" with the third pattern first
timestamp_patterns_SlashFirst == <<PatternDateSlash, PatternDateSpace, PatternDateT>>

\* the list "patterns" of _extract_timestamp, in its order
timestamp_patterns == <<PatternDateSpace, PatternDateT, PatternDateSlash>>

\* the for loop of _extract_timestamp from pattern k on
RECURSIVE ExtractTimestampFrom(_, _)
ExtractTimestampFrom(k, line) ==
    IF k > Len(timestamp_patterns) THEN Unknown
    ELSE LET match == re_search(timestamp_patterns[k], line, FALSE)
         IN  IF match # <<>> THEN match[1] ELSE ExtractTimestampFrom(k + 1, line)

_extract_timestamp(line) == ExtractTimestampFrom(1, line)

\* 'ERROR'
T_ERROR ==
    <<"E", "R", "R", "O", "R">>

\* 'WARN'
T_WARN ==
    <<"W", "A", "R", "N">>

\* 'INFO'
T_INFO ==
    <<"I", "N", "F", "O">>

\* 'DEBUG'
T_DEBUG ==
    <<"D", "E", "B", "U", "G">>

\* 'UNKNOWN'
T_UNKNOWN ==
    <<"U", "N", "K", "N", "O", "W", "N">>

\* _extract_log_level with the test of 'INFO' first
_extract_log_level_InfoFirst(line) ==
    IF Contains(T_INFO, line) THEN T_INFO
    ELSE IF Contains(T_ERROR, line) THEN T_ERROR
    ELSE IF Contains(T_WARN, line) THEN T_WARN
    ELSE IF Contains(T_DEBUG, line) THEN T_DEBUG
    ELSE T_UNKNOWN

_extract_log_level(line) ==
    IF Contains(T_ERROR, line) THEN T_ERROR
    ELSE IF Contains(T_WARN, line) THEN T_WARN
    ELSE IF Contains(T_INFO, line) THEN T_INFO
    ELSE IF Contains(T_DEBUG, line) THEN T_DEBUG
    ELSE T_UNKNOWN

(***************************************************************************)
(* The identifier test of _parse_trace_logs.                               *)
(***************************************************************************)
\* 'traceId'
T_traceId ==
    <<"t", "r", "a", "c", "e", "I", "d">>

\* 'trace_id'
T_trace_id ==
    <<"t", "r", "a", "c", "e", "_", "i", "d">>

\* 'requestId'
T_requestId ==
    <<"r", "e", "q", "u", "e", "s", "t", "I", "d">>

\* 'request_id'
T_request_id ==
    <<"r", "e", "q", "u", "e", "s", "t", "_", "i", "d">>

\* rf'<key>[=:]\s*{re.escape(trace_id)}'
KeyedPattern(key, tid) == Lits(key) \o <<ReSet({"=", ":"}), ReSpaces0>> \o Lits(tid)

\* trace_patterns without the last pattern, the identifier by itself
trace_patterns_Delimited(tid) ==
    <<KeyedPattern(T_traceId, tid),
      KeyedPattern(T_trace_id, tid),
      <<Lit("[")>> \o Lits(tid) \o <<Lit("]")>>,
      KeyedPattern(T_requestId, tid),
      KeyedPattern(T_request_id, tid)>>

\* trace_patterns with the first pattern ended behind [=:]
trace_patterns_KeyAlone(tid) ==
    <<Lits(T_traceId) \o <<ReSet({"=", ":"})>>,
      KeyedPattern(T_trace_id, tid),
      <<Lit("[")>> \o Lits(tid) \o <<Lit("]")>>,
      KeyedPattern(T_requestId, tid),
      KeyedPattern(T_request_id, tid),
      Lits(tid)>>

\* the list "trace_patterns", in its order; re.escape makes the identifier literal
trace_patterns(tid) ==
    <<KeyedPattern(T_traceId, tid),
      KeyedPattern(T_trace_id, tid),
      <<Lit("[")>> \o Lits(tid) \o <<Lit("]")>>,
      KeyedPattern(T_requestId, tid),
      KeyedPattern(T_request_id, tid),
      Lits(tid)>>

\* MatchesTraceId without re.IGNORECASE
MatchesTraceId_CaseSensitive(line, tid) ==
    \E k \in 1..Len(trace_patterns(tid)) :
        re_search(trace_patterns(tid)[k], line, FALSE) # <<>>

\* any(re.search(pattern, line, re.IGNORECASE) for pattern in trace_patterns)
MatchesTraceId(line, tid) ==
    \E k \in 1..Len(trace_patterns(tid)) :
        re_search(trace_patterns(tid)[k], line, TRUE) # <<>>

\* the condition of the inner while loop: a stack-trace continuation line
\* '    '
T_FourSpaces ==
    <<" ", " ", " ", " ">>

\* 'at '
T_at ==
    <<"a", "t", " ">>

IsContinuation(line) ==
    \/ StartsWith(line, <<"\t">>)
    \/ StartsWith(line, T_FourSpaces)
    \/ StartsWith(line, T_at)

(***************************************************************************)
(* datetime.strptime, as far as parse_timestamp uses it.  A datetime is    *)
(* <<year, month, day, hour, minute, second, microsecond>>; ValueError is  *)
(* the value <<>>.                                                         *)
(***************************************************************************)
ValueError == <<>>

\* datetime.min
datetime_min == <<1, 1, 1, 0, 0, 0, 0>>

\* the list "formats" of parse_timestamp, in its order
formats ==
    <<<<"%Y", "-", "%m", "-", "%d", " ", "%H", ":", "%M", ":", "%S">>,
      <<"%Y", "-", "%m", "-", "%d", " ", "%H", ":", "%M", ":", "%S", ".", "%f">>,
      <<"%Y", "-", "%m", "-", "%d", "T", "%H", ":", "%M", ":", "%S">>,
      <<"%Y", "-", "%m", "-", "%d", "T", "%H", ":", "%M", ":", "%S", ".", "%f">>,
      <<"%d", "/", "%m", "/", "%Y", " ", "%H", ":", "%M", ":", "%S">>>>

\* the widths a directive's regular expression tries, in its order
DirectiveWidths(directive) ==
    CASE directive = "%Y" -> <<4>>
      [] directive = "%f" -> <<6, 5, 4, 3, 2, 1>>
      [] OTHER -> <<2, 1>>

IsDirective(token) == token \in {"%Y", "%m", "%d", "%H", "%M", "%S", "%f"}

RECURSIVE Pow10(_)
Pow10(n) == IF n = 0 THEN 1 ELSE 10 * Pow10(n - 1)

\* the number written by the w characters at ts[p], or -1 when they are not
\* w digits
RECURSIVE NumberAt(_, _, _)
NumberAt(ts, p, w) ==
    IF w = 0 THEN 0
    ELSE IF p + w - 1 > Len(ts) \/ ~IsDigit(ts[p + w - 1]) THEN -1
    ELSE LET high == NumberAt(ts, p, w - 1)
         IN  IF high = -1 THEN -1 ELSE 10 * high + DigitValue(ts[p + w - 1])

\* The value the directive reads from the w characters at ts[p], or -1 when
\* its regular expression does not accept them:
\*   %m 1[0-2]|0[1-9]|[1-9]    %d 3[0-1]|[1-2]\d|0[1-9]|[1-9]| [1-9]
\*   %H 2[0-3]|[0-1]\d|\d      %M [0-5]\d|\d      %S 6[0-1]|[0-5]\d|\d
\*   %Y \d\d\d\d               %f [0-9]{1,6}
DirectiveValue(directive, ts, p, w) ==
    LET n == NumberAt(ts, p, w)
    IN  CASE directive = "%Y" -> n
          [] directive = "%f" -> IF n = -1 THEN -1 ELSE n * Pow10(6 - w)
          [] directive = "%m" ->
                IF w = 2 THEN (IF n \in 1..12 THEN n ELSE -1)
                ELSE (IF n \in 1..9 THEN n ELSE -1)
          [] directive = "%d" ->
                IF w = 2
                THEN (IF n \in 1..31 THEN n
                      ELSE IF /\ p + 1 <= Len(ts)
                              /\ ts[p] = " "
                              /\ NumberAt(ts, p + 1, 1) \in 1..9
                      THEN NumberAt(ts, p + 1, 1)
                      ELSE -1)
                ELSE (IF n \in 1..9 THEN n ELSE -1)
          [] directive = "%H" -> IF w = 2 /\ n > 23 THEN -1 ELSE n
          [] directive = "%M" -> IF w = 2 /\ n > 59 THEN -1 ELSE n
          [] directive = "%S" -> IF w = 2 /\ n > 61 THEN -1 ELSE n

\* The match of the format's tokens k.. at ts[p]: the fields read (added to
\* "got"), or ValueError.  A directive tries its widths from the j-th on and
\* falls back to the next when the rest of the format does not match.  A
\* space of the format is \s+; no format of the source follows it with a
\* token that could take a space back.
RECURSIVE StrpFrom(_, _, _, _, _, _)
StrpFrom(fmt, k, ts, p, got, j) ==
    IF k > Len(fmt) THEN (IF p = Len(ts) + 1 THEN got ELSE ValueError)
    ELSE IF fmt[k] = " "
    THEN IF SpaceRun(ts, p) = 0 THEN ValueError
         ELSE StrpFrom(fmt, k + 1, ts, p + SpaceRun(ts, p), got, 1)
    ELSE IF IsDirective(fmt[k])
    THEN IF j > Len(DirectiveWidths(fmt[k])) THEN ValueError
         ELSE LET w == DirectiveWidths(fmt[k])[j]
                  v == DirectiveValue(fmt[k], ts, p, w)
                  rest == IF v = -1 THEN ValueError
                          ELSE StrpFrom(fmt, k + 1, ts, p + w,
                                        [got EXCEPT ![fmt[k]] = v], 1)
              IN  IF rest # ValueError THEN rest
                  ELSE StrpFrom(fmt, k, ts, p, got, j + 1)
    ELSE IF p <= Len(ts) /\ Lower(ts[p]) = Lower(fmt[k])
    THEN StrpFrom(fmt, k + 1, ts, p + 1, got, 1)
    ELSE ValueError

IsLeap(year) == year % 4 = 0 /\ (year % 100 # 0 \/ year % 400 = 0)

DaysInMonth(year, month) ==
    IF month = 2 THEN (IF IsLeap(year) THEN 29 ELSE 28)
    ELSE IF month \in {4, 6, 9, 11} THEN 30
    ELSE 31

\* the datetime built from the fields read, or ValueError for a year, day or
\* second the datetime constructor refuses
MakeDatetime(got) ==
    IF got = ValueError THEN ValueError
    ELSE IF \/ got["%Y"] < 1
            \/ got["%d"] > DaysInMonth(got["%Y"], got["%m"])
            \/ got["%S"] > 59
    THEN ValueError
    ELSE <<got["%Y"], got["%m"], got["%d"], got["%H"], got["%M"], got["%S"],
           got["%f"]>>

\* the fields of a datetime before any is read: 1900-01-01 00:00:00
DefaultFields ==
    [t \in {"%Y", "%m", "%d", "%H", "%M", "%S", "%f"} |->
        CASE t = "%Y" -> 1900
          [] t \in {"%m", "%d"} -> 1
          [] OTHER -> 0]

\* datetime.strptime(ts, fmt): the datetime, or ValueError
strptime(ts, fmt) == MakeDatetime(StrpFrom(fmt, 1, ts, 1, DefaultFields, 1))

\* timestamp.split('.')[0]
BeforeDot(ts) ==
    LET dots == {p \in 1..Len(ts) : ts[p] = "."}
    IN  IF dots = {} THEN ts
        ELSE SubSeq(ts, 1, (CHOOSE p \in dots : \A q \in dots : p <= q) - 1)

\* line 723: timestamp.split('.')[0] if '.' in timestamp and 'T' not in
\* timestamp else timestamp
WithoutFraction(timestamp) ==
    IF Contains(<<".">>, timestamp) /\ ~Contains(<<"T">>, timestamp)
    THEN BeforeDot(timestamp)
    ELSE timestamp

\* ParseTimestampFrom with "return datetime.max" behind the loop
RECURSIVE ParseTimestampFrom_FailsLast(_, _)
ParseTimestampFrom_FailsLast(k, timestamp) ==
    IF k > Len(formats) THEN <<9999, 12, 31, 23, 59, 59, 999999>>
    ELSE LET parsed == strptime(WithoutFraction(timestamp), formats[k])
         IN  IF parsed # ValueError THEN parsed
             ELSE ParseTimestampFrom_FailsLast(k + 1, timestamp)

\* the for loop of parse_timestamp from format k on
RECURSIVE ParseTimestampFrom(_, _)
ParseTimestampFrom(k, timestamp) ==
    IF k > Len(formats) THEN datetime_min
    ELSE LET parsed == strptime(WithoutFraction(timestamp), formats[k])
         IN  IF parsed # ValueError THEN parsed
             ELSE ParseTimestampFrom(k + 1, timestamp)

\* the sort key of _sort_logs_by_timestamp
parse_timestamp(log) ==
    IF log.timestamp = Unknown THEN datetime_min
    ELSE ParseTimestampFrom(1, log.timestamp)

(***************************************************************************)
(* Inputs: identifiers and lines of text.                                  *)
(***************************************************************************)
\* 'req-42'
Id_req42 ==
    <<"r", "e", "q", "-", "4", "2">>

\* 'Bar'
Id_Bar ==
    <<"B", "a", "r">>

TraceIds == {Id_req42, Id_Bar}

\* '2024-01-01 10:00:00 INFO [req-42] start\n'
Line_start ==
    <<"2", "0", "2", "4", "-", "0", "1", "-", "0", "1", " ", "1", "0", ":",
      "0", "0", ":", "0", "0", " ", "I", "N", "F", "O", " ", "[", "r", "e",
      "q", "-", "4", "2", "]", " ", "s", "t", "a", "r", "t", "\n">>

\* '2024-01-01 10:00:05 ERROR [req-42] boom\n'
Line_boom ==
    <<"2", "0", "2", "4", "-", "0", "1", "-", "0", "1", " ", "1", "0", ":",
      "0", "0", ":", "0", "5", " ", "E", "R", "R", "O", "R", " ", "[", "r",
      "e", "q", "-", "4", "2", "]", " ", "b", "o", "o", "m", "\n">>

\* '\tat com.foo.Bar.baz\n'
Line_frame ==
    <<"\t", "a", "t", " ", "c", "o", "m", ".", "f", "o", "o", ".", "B", "a",
      "r", ".", "b", "a", "z", "\n">>

\* '2024-01-01 09:59:59 WARN [req-42] before\n'
Line_before ==
    <<"2", "0", "2", "4", "-", "0", "1", "-", "0", "1", " ", "0", "9", ":",
      "5", "9", ":", "5", "9", " ", "W", "A", "R", "N", " ", "[", "r", "e",
      "q", "-", "4", "2", "]", " ", "b", "e", "f", "o", "r", "e", "\n">>

\* '    traceId: req-42\n'
Line_keyed ==
    <<" ", " ", " ", " ", "t", "r", "a", "c", "e", "I", "d", ":", " ", "r",
      "e", "q", "-", "4", "2", "\n">>

\* 'at [REQ-42]\n'
Line_at ==
    <<"a", "t", " ", "[", "R", "E", "Q", "-", "4", "2", "]", "\n">>

\* 'ERROR no id\n'
Line_noid ==
    <<"E", "R", "R", "O", "R", " ", "n", "o", " ", "i", "d", "\n">>

\* '   req-429 DEBUG\n'
Line_longer ==
    <<" ", " ", " ", "r", "e", "q", "-", "4", "2", "9", " ", "D", "E", "B",
      "U", "G", "\n">>

\* the lines a source of the single-source extraction is made of
LinePool ==
    {Line_start, Line_boom, Line_frame, Line_before, Line_keyed, Line_at,
     Line_noid, Line_longer}

\* '0001-01-01 00:00:00 INFO [req-42] first\n'
Line_first ==
    <<"0", "0", "0", "1", "-", "0", "1", "-", "0", "1", " ", "0", "0", ":",
      "0", "0", ":", "0", "0", " ", "I", "N", "F", "O", " ", "[", "r", "e",
      "q", "-", "4", "2", "]", " ", "f", "i", "r", "s", "t", "\n">>

\* '2024-13-01 10:00:00 DEBUG req-42\n'
Line_month13 ==
    <<"2", "0", "2", "4", "-", "1", "3", "-", "0", "1", " ", "1", "0", ":",
      "0", "0", ":", "0", "0", " ", "D", "E", "B", "U", "G", " ", "r", "e",
      "q", "-", "4", "2", "\n">>

\* '01/01/2024 10:00:05 INFO request_id=req-42\n'
Line_slash ==
    <<"0", "1", "/", "0", "1", "/", "2", "0", "2", "4", " ", "1", "0", ":",
      "0", "0", ":", "0", "5", " ", "I", "N", "F", "O", " ", "r", "e", "q",
      "u", "e", "s", "t", "_", "i", "d", "=", "r", "e", "q", "-", "4", "2",
      "\n">>

\* '2024-01-01T10:00:00 INFO [req-42] start\n'
Line_iso ==
    <<"2", "0", "2", "4", "-", "0", "1", "-", "0", "1", "T", "1", "0", ":",
      "0", "0", ":", "0", "0", " ", "I", "N", "F", "O", " ", "[", "r", "e",
      "q", "-", "4", "2", "]", " ", "s", "t", "a", "r", "t", "\n">>

\* the lines the files of a scanned directory are made of
DirPool ==
    {Line_boom, Line_frame, Line_before, Line_at, Line_first, Line_month13,
     Line_slash, Line_iso}

\* the identifiers searched for in a directory
DirTraceIds == {Id_req42}

InputLines == LinePool \cup DirPool

\* The per-line functions of the source, tabulated over the input lines (TLC
\* evaluates a constant definition once): whether the line matches each
\* identifier (line 394), its timestamp, level and content (lines 397-399)
\* and whether it continues a stack trace (lines 415-417).
LineTable ==
    [line \in InputLines |->
        [matches |-> {tid \in TraceIds : MatchesTraceId(line, tid)},
         timestamp |-> _extract_timestamp(line),
         level |-> _extract_log_level(line),
         content |-> Strip(line),
         continuation |-> IsContinuation(line)]]

\* the sort key of every timestamp an entry can carry, tabulated likewise
KeyTable ==
    [ts \in {LineTable[line].timestamp : line \in InputLines} |->
        parse_timestamp([timestamp |-> ts])]

(***************************************************************************)
(* LogAnalyzer._sort_logs_by_timestamp.                                    *)
(***************************************************************************)
\* a < b of two datetimes: the first field that differs decides
DatetimeLess(a, b) ==
    \E k \in 1..Len(a) : a[k] < b[k] /\ \A j \in 1..(k - 1) : a[j] = b[j]

\* the least element of S, or the default when S is empty
FirstOr(S, default) ==
    IF S = {} THEN default ELSE CHOOSE p \in S : \A q \in S : p <= q

\* list.insert(at - 1, x) on a copy
InsertAt(seq, at, x) == SubSeq(seq, 1, at - 1) \o <<x>> \o SubSeq(seq, at, Len(seq))

\* the positions of the sorted list whose key is greater than the key of x
Later(sorted_logs, x) ==
    {p \in 1..Len(sorted_logs) :
        DatetimeLess(KeyTable[x.timestamp], KeyTable[sorted_logs[p].timestamp])}

\* InsertByKey with x put before the elements whose key is equal to its own
InsertByKey_BeforeEqual(sorted_logs, x) ==
    InsertAt(sorted_logs,
             FirstOr({p \in 1..Len(sorted_logs) :
                        ~DatetimeLess(KeyTable[sorted_logs[p].timestamp],
                                      KeyTable[x.timestamp])},
                     Len(sorted_logs) + 1),
             x)

\* x put into the list sorted by key, behind every element whose key is not
\* greater than its own
InsertByKey(sorted_logs, x) ==
    InsertAt(sorted_logs, FirstOr(Later(sorted_logs, x), Len(sorted_logs) + 1), x)

\* sorted(logs, key=parse_timestamp): Python's sort is stable
RECURSIVE sorted(_)
sorted(seq) ==
    IF seq = <<>> THEN <<>>
    ELSE LET front == sorted(SubSeq(seq, 1, Len(seq) - 1))
         IN  InsertByKey(front, seq[Len(seq)])

\* _sort_logs_by_timestamp with the result of sorted() dropped
_sort_logs_by_timestamp_Unsorted(seq) == seq

\* parse_timestamp and the comparison of datetimes raise nothing (strptime's
\* ValueError is caught inside), so the except branch is never taken
_sort_logs_by_timestamp(seq) == sorted(seq)

(***************************************************************************)
(* LogAnalyzer._parse_trace_logs.  The state of its loop is the record     *)
(* [i, logs, error_count, warn_count, info_count]; i is 0-based as in the  *)
(* source, so lines[i] of the source is ls[i + 1] here.                    *)
(***************************************************************************)
\* StackEnd with "if" in the place of "while": at most one line is consumed
StackEnd_OneLine(ls, j) ==
    IF j < Len(ls) /\ LineTable[ls[j + 1]].continuation THEN j + 1 ELSE j

\* the inner while loop (lines 415-419) started with i = j: the value of i
\* when it ends
RECURSIVE StackEnd(_, _)
StackEnd(ls, j) ==
    IF j < Len(ls) /\ LineTable[ls[j + 1]].continuation THEN StackEnd(ls, j + 1) ELSE j

\* the lines the inner while loop appends to log_entry['stack_trace'] while i
\* runs from j to k - 1
CollectStack(ls, j, k) == [n \in 1..(k - j) |-> LineTable[ls[j + n]].content]

\* NewEntry with the stack trace collected at every level
NewEntry_AnyLevel(ls, j, row, stop) ==
    [line_number |-> j + 1,
     timestamp |-> row.timestamp,
     level |-> row.level,
     content |-> row.content,
     stack_trace |-> CollectStack(ls, j + 1, stop)]

\* NewEntry with 'line_number' read from i after the stack trace is consumed
NewEntry_NumberedLate(ls, j, row, stop) ==
    [line_number |-> IF row.level = T_ERROR THEN stop ELSE j + 1,
     timestamp |-> row.timestamp,
     level |-> row.level,
     content |-> row.content,
     stack_trace |-> IF row.level = T_ERROR THEN CollectStack(ls, j + 1, stop)
                     ELSE <<>>]

\* lines 395-401 and 412-420: the entry of the matched line ls[j + 1]; row is
\* the line's row of LineTable and stop the value of i when the inner while
\* loop has ended (before "i -= 1")
NewEntry(ls, j, row, stop) ==
    [line_number |-> j + 1,
     timestamp |-> row.timestamp,
     level |-> row.level,
     content |-> row.content,
     stack_trace |-> IF row.level = T_ERROR THEN CollectStack(ls, j + 1, stop)
                     ELSE <<>>]

\* MatchedLine with "else" in the place of "elif level == 'INFO'"
MatchedLine_CountsRestAsInfo(ls, st, row, stop) ==
    [i |-> (IF row.level = T_ERROR THEN stop - 1 ELSE st.i) + 1,
     logs |-> Append(st.logs, NewEntry(ls, st.i, row, stop)),
     error_count |-> st.error_count + (IF row.level = T_ERROR THEN 1 ELSE 0),
     warn_count |-> st.warn_count + (IF row.level = T_WARN THEN 1 ELSE 0),
     info_count |-> st.info_count
                        + (IF row.level \notin {T_ERROR, T_WARN} THEN 1 ELSE 0)]

\* MatchedLine with the index moved behind the continuation lines at every
\* level
MatchedLine_SkipsRun(ls, st, row, stop) ==
    [i |-> stop,
     logs |-> Append(st.logs, NewEntry(ls, st.i, row, stop)),
     error_count |-> st.error_count + (IF row.level = T_ERROR THEN 1 ELSE 0),
     warn_count |-> st.warn_count + (IF row.level = T_WARN THEN 1 ELSE 0),
     info_count |-> st.info_count + (IF row.level = T_INFO THEN 1 ELSE 0)]

\* MatchedLine without the "i -= 1" of line 420
MatchedLine_NoStepBack(ls, st, row, stop) ==
    [i |-> (IF row.level = T_ERROR THEN stop ELSE st.i) + 1,
     logs |-> Append(st.logs, NewEntry(ls, st.i, row, stop)),
     error_count |-> st.error_count + (IF row.level = T_ERROR THEN 1 ELSE 0),
     warn_count |-> st.warn_count + (IF row.level = T_WARN THEN 1 ELSE 0),
     info_count |-> st.info_count + (IF row.level = T_INFO THEN 1 ELSE 0)]

\* lines 395-424: the iteration of a line that matches the identifier
MatchedLine(ls, st, row, stop) ==
    [i |-> (IF row.level = T_ERROR THEN stop - 1 ELSE st.i) + 1,
     logs |-> Append(st.logs, NewEntry(ls, st.i, row, stop)),
     error_count |-> st.error_count + (IF row.level = T_ERROR THEN 1 ELSE 0),
     warn_count |-> st.warn_count + (IF row.level = T_WARN THEN 1 ELSE 0),
     info_count |-> st.info_count + (IF row.level = T_INFO THEN 1 ELSE 0)]

\* LoopBody with a stack-trace continuation line never made an entry
LoopBody_SkipsContinuations(ls, tid, st) ==
    IF tid \in LineTable[ls[st.i + 1]].matches /\ ~LineTable[ls[st.i + 1]].continuation
    THEN MatchedLine(ls, st, LineTable[ls[st.i + 1]], StackEnd(ls, st.i + 1))
    ELSE [st EXCEPT !.i = st.i + 1]

\* one iteration of the outer while loop (lines 391-424)
LoopBody(ls, tid, st) ==
    IF tid \in LineTable[ls[st.i + 1]].matches
    THEN MatchedLine(ls, st, LineTable[ls[st.i + 1]], StackEnd(ls, st.i + 1))
    ELSE [st EXCEPT !.i = st.i + 1]

\* the outer while loop run to its end
RECURSIVE ParseLoop(_, _, _)
ParseLoop(ls, tid, st) ==
    IF st.i < Len(ls) THEN ParseLoop(ls, tid, LoopBody(ls, tid, st)) ELSE st

\* ParseResult with the entries passed through _sort_logs_by_timestamp
ParseResult_Sorted(path, tid, st) ==
    [trace_id |-> tid,
     file |-> path,
     total_logs |-> Len(st.logs),
     error_count |-> st.error_count,
     warn_count |-> st.warn_count,
     info_count |-> st.info_count,
     logs |-> _sort_logs_by_timestamp(st.logs)]

\* ParseResult with total_logs the sum of the three counters
ParseResult_TotalOfCounted(path, tid, st) ==
    [trace_id |-> tid,
     file |-> path,
     total_logs |-> st.error_count + st.warn_count + st.info_count,
     error_count |-> st.error_count,
     warn_count |-> st.warn_count,
     info_count |-> st.info_count,
     logs |-> st.logs]

\* the dictionary returned after the loop (lines 426-434)
ParseResult(path, tid, st) ==
    [trace_id |-> tid,
     file |-> path,
     total_logs |-> Len(st.logs),
     error_count |-> st.error_count,
     warn_count |-> st.warn_count,
     info_count |-> st.info_count,
     logs |-> st.logs]

\* the dictionary returned by the except branch (lines 435-445)
ParseFailed(path, tid) ==
    [trace_id |-> tid,
     file |-> path,
     total_logs |-> 0,
     error_count |-> 0,
     warn_count |-> 0,
     info_count |-> 0,
     logs |-> <<>>]

LoopStart == [i |-> 0, logs |-> <<>>, error_count |-> 0, warn_count |-> 0, info_count |-> 0]

\* the whole call; source is [path, readable, content], and a source that
\* cannot be opened or read raises inside the try
_parse_trace_logs(source, tid) ==
    IF source.readable
    THEN ParseResult(source.path, tid, ParseLoop(source.content, tid, LoopStart))
    ELSE ParseFailed(source.path, tid)

\* the sequences of at most n elements of S
SeqsUpTo(S, n) == UNION {[1..k -> S] : k \in 0..n}

\* the path of the single source
SinglePath == <<"logs", "app.log">>

(***************************************************************************)
(* Specification Spec: one call of _parse_trace_logs on one source, which  *)
(* is also the single-file branch of run_trace_analysis (lines 113-116).   *)
(* The loop is taken one iteration at a time.                              *)
(***************************************************************************)
\* run_trace_analysis is not running
RunIdle ==
    /\ target_kind = "none"
    /\ target_files = <<>>
    /\ calls = <<>>
    /\ console = <<>>
    /\ log_content = <<>>

ScanIdle ==
    /\ tree = <<>>
    /\ walk = <<>>

DirIdle ==
    /\ log_files = <<>>
    /\ file_idx = 0
    /\ file_results = <<>>
    /\ all_logs = <<>>
    /\ source_files = <<>>

Init ==
    /\ pc = "read"
    /\ trace_id \in TraceIds
    /\ lines \in SeqsUpTo(LinePool, MaxLines)
    /\ i = 0
    /\ logs = <<>>
    /\ error_count = 0
    /\ warn_count = 0
    /\ info_count = 0
    /\ DirIdle
    /\ trace_logs = <<>>
    /\ ScanIdle
    /\ RunIdle

LoopState ==
    [i |-> i, logs |-> logs, error_count |-> error_count,
     warn_count |-> warn_count, info_count |-> info_count]

\* lines 376-377: the source is opened and read
ReadLines ==
    /\ pc = "read"
    /\ pc' = "loop"
    /\ UNCHANGED <<trace_id, lines, i, logs, error_count, warn_count, info_count,
                   log_files, file_idx, file_results, all_logs, source_files,
                   trace_logs>>
    /\ UNCHANGED run_vars
    /\ UNCHANGED scan_vars

\* lines 435-445: opening or reading raises
ReadFails ==
    /\ pc = "read"
    /\ pc' = "returned"
    /\ trace_logs' = ParseFailed(SinglePath, trace_id)
    /\ UNCHANGED <<trace_id, lines, i, logs, error_count, warn_count, info_count,
                   log_files, file_idx, file_results, all_logs, source_files>>
    /\ UNCHANGED run_vars
    /\ UNCHANGED scan_vars

\* the locals of the loop take the values of st
SetLoopState(st) ==
    /\ i' = st.i
    /\ logs' = st.logs
    /\ error_count' = st.error_count
    /\ warn_count' = st.warn_count
    /\ info_count' = st.info_count

\* LoopIteration without the "i += 1" of line 424
LoopIteration_NoAdvance ==
    /\ pc = "loop"
    /\ i < Len(lines)
    /\ SetLoopState([LoopBody(lines, trace_id, LoopState) EXCEPT !.i = @ - 1])
    /\ UNCHANGED <<pc, trace_id, lines, log_files, file_idx, file_results,
                   all_logs, source_files, trace_logs>>
    /\ UNCHANGED run_vars
    /\ UNCHANGED scan_vars

\* lines 390-424: one iteration of the while loop
LoopIteration ==
    /\ pc = "loop"
    /\ i < Len(lines)
    /\ SetLoopState(LoopBody(lines, trace_id, LoopState))
    /\ UNCHANGED <<pc, trace_id, lines, log_files, file_idx, file_results,
                   all_logs, source_files, trace_logs>>
    /\ UNCHANGED run_vars
    /\ UNCHANGED scan_vars

\* lines 426-434: the loop has ended
Return ==
    /\ pc = "loop"
    /\ ~(i < Len(lines))
    /\ pc' = "returned"
    /\ trace_logs' = ParseResult(SinglePath, trace_id, LoopState)
    /\ UNCHANGED <<trace_id, lines, i, logs, error_count, warn_count, info_count,
                   log_files, file_idx, file_results, all_logs, source_files>>
    /\ UNCHANGED run_vars
    /\ UNCHANGED scan_vars

Next == ReadLines \/ ReadFails \/ LoopIteration \/ Return

Spec == Init /\ [][Next]_vars

(***************************************************************************)
(* LogAnalyzer._parse_trace_logs_from_directory.  A source is the record   *)
(* [path, readable, content]; a path is the sequence of its components.    *)
(***************************************************************************)
\* os.path.basename
basename(path) == path[Len(path)]

\* TagSource under "if len(log_files) > 1:"
TagSource_AmongSeveral(entries, path) ==
    IF Len(log_files) > 1
    THEN [k \in 1..Len(entries) |-> entries[k] @@ ("source_file" :> basename(path))]
    ELSE entries

\* lines 665-666: log['source_file'] = os.path.basename(log_file) for every
\* entry of the file
TagSource(entries, path) ==
    [k \in 1..Len(entries) |-> entries[k] @@ ("source_file" :> basename(path))]

\* the paths FileScanner hands over, in its order
FilePaths ==
    <<<<"logs", "a.log">>, <<"logs", "b.log">>, <<"logs", "c.txt">>,
      <<"logs", "d.out">>>>

\* the value of f"目录扫描 ({len(log_files)} 个文件)"
DirectoryLabel(n) == <<"directory scan", n>>

\* the files cut out of the lines "flat" behind the positions cuts[1] <= ...
\* <= cuts[f - 1]; the files listed in "unreadable" cannot be read
CutFiles(flat, cuts, unreadable) ==
    [k \in 1..(Len(cuts) + 1) |->
        LET from == IF k = 1 THEN 0 ELSE cuts[k - 1]
            to == IF k = Len(cuts) + 1 THEN Len(flat) ELSE cuts[k]
        IN  [path |-> FilePaths[k],
             readable |-> k \notin unreadable,
             content |-> SubSeq(flat, from + 1, to)]]

\* the ways to cut n lines into f files: a file may be empty
CutsOf(n, f) ==
    {cuts \in [1..(f - 1) -> 0..n] : \A k \in 1..(f - 2) : cuts[k] <= cuts[k + 1]}

\* the files that CutFiles(flat, cuts, {}) leaves empty
EmptyFiles(flat, cuts) ==
    {k \in 1..(Len(cuts) + 1) :
        (IF k = 1 THEN 0 ELSE cuts[k - 1])
            = (IF k = Len(cuts) + 1 THEN Len(flat) ELSE cuts[k])}

\* The directory scanned: 1 to MaxFiles files (run_trace_analysis returns at
\* line 122 when there is none) that hold at most MaxDirLines lines
\* together.  What a file that cannot be read holds is never seen, so such a
\* file is given no content.
IsDirectory(files) ==
    \E flat \in SeqsUpTo(DirPool, MaxDirLines) :
        \E f \in 1..MaxFiles :
            \E cuts \in CutsOf(Len(flat), f) :
                \E unreadable \in SUBSET EmptyFiles(flat, cuts) :
                    files = CutFiles(flat, cuts, unreadable)

(***************************************************************************)
(* Specification SpecDir: one call of _parse_trace_logs_from_directory on  *)
(* the files of a directory, one file per step of its for loop.            *)
(***************************************************************************)
InitDir ==
    /\ pc = "scan"
    /\ trace_id \in DirTraceIds
    /\ IsDirectory(log_files)
    /\ file_idx = 0
    /\ file_results = <<>>
    /\ all_logs = <<>>
    /\ source_files = <<>>
    /\ error_count = 0
    /\ warn_count = 0
    /\ info_count = 0
    /\ lines = <<>>
    /\ i = 0
    /\ logs = <<>>
    /\ trace_logs = <<>>
    /\ ScanIdle
    /\ RunIdle

\* Accumulate with "source_files.append(log_file)" before the test of
\* file_logs['logs']
Accumulate_AlwaysListed(log_file, file_logs) ==
    /\ file_results' = Append(file_results, file_logs)
    /\ source_files' = Append(source_files, log_file.path)
    /\ IF file_logs.logs # <<>>
       THEN /\ all_logs' = all_logs \o TagSource(file_logs.logs, log_file.path)
            /\ error_count' = error_count + file_logs.error_count
            /\ warn_count' = warn_count + file_logs.warn_count
            /\ info_count' = info_count + file_logs.info_count
       ELSE UNCHANGED <<all_logs, error_count, warn_count, info_count>>

\* Accumulate with "all_logs = file_logs['logs']" in the place of extend
Accumulate_Overwrite(log_file, file_logs) ==
    /\ file_results' = Append(file_results, file_logs)
    /\ IF file_logs.logs # <<>>
       THEN /\ source_files' = Append(source_files, log_file.path)
            /\ all_logs' = TagSource(file_logs.logs, log_file.path)
            /\ error_count' = error_count + file_logs.error_count
            /\ warn_count' = warn_count + file_logs.warn_count
            /\ info_count' = info_count + file_logs.info_count
       ELSE UNCHANGED <<source_files, all_logs, error_count, warn_count,
                        info_count>>

\* lines 661-671: the result of one file is added to the locals; its entries
\* are tagged with the file's name first
Accumulate(log_file, file_logs) ==
    /\ file_results' = Append(file_results, file_logs)
    /\ IF file_logs.logs # <<>>
       THEN /\ source_files' = Append(source_files, log_file.path)
            /\ all_logs' = all_logs \o TagSource(file_logs.logs, log_file.path)
            /\ error_count' = error_count + file_logs.error_count
            /\ warn_count' = warn_count + file_logs.warn_count
            /\ info_count' = info_count + file_logs.info_count
       ELSE UNCHANGED <<source_files, all_logs, error_count, warn_count,
                        info_count>>

\* ScanFile with the loop left at the first file that cannot be read
ScanFile_StopsAtFailure ==
    /\ pc = "scan"
    /\ file_idx < Len(log_files)
    /\ Accumulate(log_files[file_idx + 1],
                  _parse_trace_logs(log_files[file_idx + 1], trace_id))
    /\ file_idx' = IF log_files[file_idx + 1].readable THEN file_idx + 1
                   ELSE Len(log_files)
    /\ UNCHANGED <<pc, trace_id, lines, i, logs, log_files, trace_logs>>
    /\ UNCHANGED run_vars
    /\ UNCHANGED scan_vars

\* lines 655-673: one iteration of the for loop
ScanFile ==
    /\ pc = "scan"
    /\ file_idx < Len(log_files)
    /\ Accumulate(log_files[file_idx + 1],
                  _parse_trace_logs(log_files[file_idx + 1], trace_id))
    /\ file_idx' = file_idx + 1
    /\ UNCHANGED <<pc, trace_id, lines, i, logs, log_files, trace_logs>>
    /\ UNCHANGED run_vars
    /\ UNCHANGED scan_vars

\* MergeReturn with total_logs the number of the files that gave entries
MergeReturn_TotalOfSources ==
    /\ pc = "scan"
    /\ file_idx = Len(log_files)
    /\ pc' = "returned"
    /\ all_logs' = _sort_logs_by_timestamp(all_logs)
    /\ trace_logs' =
           [trace_id |-> trace_id,
            file |-> DirectoryLabel(Len(log_files)),
            source_files |-> source_files,
            total_logs |-> Len(source_files),
            error_count |-> error_count,
            warn_count |-> warn_count,
            info_count |-> info_count,
            logs |-> all_logs']
    /\ UNCHANGED <<trace_id, lines, i, logs, error_count, warn_count, info_count,
                   log_files, file_idx, file_results, source_files>>
    /\ UNCHANGED run_vars
    /\ UNCHANGED scan_vars

\* lines 676-691: the entries are sorted and the result is returned
MergeReturn ==
    /\ pc = "scan"
    /\ file_idx = Len(log_files)
    /\ pc' = "returned"
    /\ all_logs' = _sort_logs_by_timestamp(all_logs)
    /\ trace_logs' =
           [trace_id |-> trace_id,
            file |-> DirectoryLabel(Len(log_files)),
            source_files |-> source_files,
            total_logs |-> Len(all_logs'),
            error_count |-> error_count,
            warn_count |-> warn_count,
            info_count |-> info_count,
            logs |-> all_logs']
    /\ UNCHANGED <<trace_id, lines, i, logs, error_count, warn_count, info_count,
                   log_files, file_idx, file_results, source_files>>
    /\ UNCHANGED run_vars
    /\ UNCHANGED scan_vars

\* The same function as one value, for a list of files given as a whole.
\* lines 661-671: the locals with the result file_logs of log_file added
Accumulated(st, log_file, file_logs) ==
    IF file_logs.logs # <<>>
    THEN [source_files |-> Append(st.source_files, log_file.path),
          all_logs |-> st.all_logs \o TagSource(file_logs.logs, log_file.path),
          error_count |-> st.error_count + file_logs.error_count,
          warn_count |-> st.warn_count + file_logs.warn_count,
          info_count |-> st.info_count + file_logs.info_count]
    ELSE st

\* lines 638-673: the locals after the first n files
RECURSIVE ScanLoop(_, _, _)
ScanLoop(files, tid, n) ==
    IF n = 0
    THEN [source_files |-> <<>>, all_logs |-> <<>>, error_count |-> 0,
          warn_count |-> 0, info_count |-> 0]
    ELSE Accumulated(ScanLoop(files, tid, n - 1), files[n],
                     _parse_trace_logs(files[n], tid))

\* lines 676-691: the dictionary made of the locals st
DirectoryResult(files, tid, st) ==
    [trace_id |-> tid,
     file |-> DirectoryLabel(Len(files)),
     source_files |-> st.source_files,
     total_logs |-> Len(st.all_logs),
     error_count |-> st.error_count,
     warn_count |-> st.warn_count,
     info_count |-> st.info_count,
     logs |-> _sort_logs_by_timestamp(st.all_logs)]

\* the whole call
_parse_trace_logs_from_directory(files, tid) ==
    DirectoryResult(files, tid, ScanLoop(files, tid, Len(files)))

NextDir == ScanFile \/ MergeReturn

SpecDir == InitDir /\ [][NextDir]_vars

(***************************************************************************)
(* The renderer _display_trace_statistics / _display_trace_logs and the    *)
(* formatter _format_trace_for_analysis.  A printed text is kept as the    *)
(* sequence of its parts with a label first, and a text of several lines   *)
(* ('\n'.join) as the sequence of its lines.                               *)
(***************************************************************************)
\* the 20 of "display_count = min(20, len(logs))"
DisplayLimit == 20

\* the 15 of "log['stack_trace'][:15]"
StackDisplayLimit == 15

Min(a, b) == IF a < b THEN a ELSE b

\* 'source_file' in log
HasSourceFile(log) == "source_file" \in DOMAIN log

\* a line printed by console.print
Notice(text) == [kind |-> "notice", text |-> text]

\* the prompt of Confirm.ask (line 145) with the answer the user gives
Confirmation(answer) == [kind |-> "confirm", answer |-> answer]

\* table.add_row for a counter that is greater than 0
StatisticsRow(level, count) == IF count > 0 THEN <<<<level, count>>>> ELSE <<>>

\* what _display_trace_statistics prints
_display_trace_statistics(result) ==
    <<[kind |-> "statistics",
       trace_id |-> result.trace_id,
       file |-> result.file,
       total_logs |-> result.total_logs,
       rows |-> StatisticsRow(T_ERROR, result.error_count)
                    \o StatisticsRow(T_WARN, result.warn_count)
                    \o StatisticsRow(T_INFO, result.info_count)]>>

\* the title of the panel of entry number k
PanelTitle(k, log) ==
    <<"log #", k, log.level>>
        \o (IF log.timestamp # Unknown THEN <<log.timestamp>> ELSE <<>>)
        \o (IF HasSourceFile(log) THEN <<log.source_file>> ELSE <<>>)

\* the lines of a panel: the content, then at most 15 lines of the stack
\* trace and the number of those left out
PanelContent(content, stack_trace) ==
    <<content>>
        \o (IF stack_trace # <<>>
            THEN <<"stack trace:">>
                     \o SubSeq(stack_trace, 1, Min(StackDisplayLimit, Len(stack_trace)))
            ELSE <<>>)
        \o (IF Len(stack_trace) > StackDisplayLimit
            THEN <<<<"more lines", Len(stack_trace) - StackDisplayLimit>>>>
            ELSE <<>>)

\* the panel of entry number k
LogPanel(k, log) ==
    [kind |-> "panel",
     title |-> PanelTitle(k, log),
     content_lines |-> PanelContent(log.content, log.stack_trace),
     border_style |-> CASE log.level = T_ERROR -> "red"
                        [] log.level = T_WARN -> "yellow"
                        [] OTHER -> "cyan"]

\* the panels of logs[:display_count] and the number of entries left out
ShownLogs(entries, display_count) ==
    <<[kind |-> "showing", count |-> display_count]>>
        \o [k \in 1..display_count |-> LogPanel(k, entries[k])]
        \o (IF Len(entries) > display_count
            THEN <<[kind |-> "more", count |-> Len(entries) - display_count]>>
            ELSE <<>>)

\* what _display_trace_logs prints
_display_trace_logs(result) ==
    ShownLogs(result.logs, Min(DisplayLimit, Len(result.logs)))

\* the first lines of the formatted text: identifier, counts and, for a
\* result with a non-empty 'source_files', the files
FormatHeader(result, tid) ==
    <<<<"trace id", tid>>,
      <<"total", result.total_logs>>,
      <<"errors", result.error_count>>,
      <<"warnings", result.warn_count>>,
      <<"infos", result.info_count>>>>
        \o (IF "source_files" \in DOMAIN result /\ result.source_files # <<>>
            THEN <<<<"file count", Len(result.source_files)>>,
                   <<"file list", [k \in 1..Len(result.source_files) |->
                                     basename(result.source_files[k])]>>>>
            ELSE <<>>)
        \o <<<<"rule">>, <<"complete trace logs">>, <<"rule">>>>

\* the lines of entry number k
FormatBlock(k, log) ==
    <<<<"log", k, log.level>>>>
        \o (IF log.timestamp # Unknown THEN <<<<"time", log.timestamp>>>> ELSE <<>>)
        \o (IF HasSourceFile(log) THEN <<<<"source", log.source_file>>>> ELSE <<>>)
        \o <<<<"content", log.content>>>>
        \o (IF log.stack_trace # <<>>
            THEN <<<<"stack trace">>>>
                     \o [j \in 1..Len(log.stack_trace) |-> <<"  ", log.stack_trace[j]>>]
            ELSE <<>>)

\* the lines of the first n entries
RECURSIVE FormatBlocks(_, _)
FormatBlocks(entries, n) ==
    IF n = 0 THEN <<>>
    ELSE FormatBlocks(entries, n - 1) \o FormatBlock(n, entries[n])

\* the last lines of the formatted text: what the analysis is to cover
FormatFooter ==
    <<<<"rule">>, <<"requirements">>, <<"rule">>, <<"analyse">>>>
        \o [k \in 1..7 |-> <<"requirement", k>>]

\* _format_trace_for_analysis with the loop of line 572 over
\* logs[:display_count], as in _display_trace_logs
_format_trace_for_analysis_Shown(result, tid) ==
    FormatHeader(result, tid)
        \o FormatBlocks(result.logs, Min(DisplayLimit, Len(result.logs)))
        \o FormatFooter

\* the text _format_trace_for_analysis returns
_format_trace_for_analysis(result, tid) ==
    FormatHeader(result, tid)
        \o FormatBlocks(result.logs, Len(result.logs))
        \o FormatFooter

(***************************************************************************)
(* Specification SpecRun: one call of run_trace_analysis.  What the user   *)
(* answers to the first prompt (trace_id) and what log_path names are      *)
(* fixed from the start; the calls of _parse_trace_logs and of             *)
(* _parse_trace_logs_from_directory run as in Spec and SpecDir.            *)
(***************************************************************************)
\* the longest run of equal lines at the end of the file of a run
MaxRepeat == 21

\* the number of other lines before them
MaxRunPrefix == 2

\* the lines before them
RunPool == {Line_boom, Line_frame, Line_noid}

\* the answers to the prompt for the identifier: the last two are empty
\* once stripped
RunIds == TraceIds \cup {<<>>, <<" ", "\t">>}

\* the lines the files of the directory of a run are made of
RunDirPool == {Line_boom, Line_frame, Line_at, Line_before}

\* the directory of a run: as IsDirectory, with the lines of RunDirPool
IsRunDirectory(files) ==
    \E flat \in SeqsUpTo(RunDirPool, MaxDirLines) :
        \E f \in 1..MaxFiles :
            \E cuts \in CutsOf(Len(flat), f) :
                \E unreadable \in SUBSET EmptyFiles(flat, cuts) :
                    files = CutFiles(flat, cuts, unreadable)

\* the line the file of a run ends with a run of: an entry of its own, or a
\* line of a stack trace
RunRepeated == {Line_start, Line_frame}

\* a file of the lines "prefix" followed by n lines "repeated"
RunFile(prefix, n, repeated) ==
    [path |-> SinglePath,
     readable |-> TRUE,
     content |-> prefix \o [k \in 1..n |-> repeated]]

InitRun ==
    /\ pc = "ask"
    /\ trace_id \in RunIds
    /\ \/ target_kind = "missing" /\ target_files = <<>>
       \/ /\ target_kind = "file"
          /\ \E prefix \in SeqsUpTo(RunPool, MaxRunPrefix) :
                \E n \in 0..MaxRepeat, repeated \in RunRepeated :
                    target_files = <<RunFile(prefix, n, repeated)>>
       \/ target_kind = "directory" /\ target_files = <<>>
       \/ target_kind = "directory" /\ IsRunDirectory(target_files)
    /\ lines = <<>>
    /\ i = 0
    /\ logs = <<>>
    /\ error_count = 0
    /\ warn_count = 0
    /\ info_count = 0
    /\ DirIdle
    /\ trace_logs = <<>>
    /\ ScanIdle
    /\ calls = <<>>
    /\ console = <<>>
    /\ log_content = <<>>

\* the run ends with the notice "text" before anything is called
Reject(text) ==
    /\ pc' = "done"
    /\ console' = Append(console, Notice(text))
    /\ UNCHANGED <<trace_id, lines, i, logs, error_count, warn_count, info_count,
                   log_files, file_idx, file_results, all_logs, source_files,
                   trace_logs, target_kind, target_files, calls, log_content>>
    /\ UNCHANGED scan_vars

\* lines 99-102: the identifier is empty once stripped
RejectEmptyId ==
    /\ pc = "ask"
    /\ Strip(trace_id) = <<>>
    /\ Reject("trace id must not be empty")

\* lines 107-110: the path does not exist
RejectMissingPath ==
    /\ pc = "ask"
    /\ Strip(trace_id) # <<>>
    /\ target_kind = "missing"
    /\ Reject("path does not exist")

\* CallParse without the test of line 99
CallParse_AnyId ==
    /\ pc = "ask"
    /\ target_kind = "file"
    /\ calls' = Append(calls, "_parse_trace_logs")
    /\ lines' = target_files[1].content
    /\ pc' = "read"
    /\ UNCHANGED <<trace_id, i, logs, error_count, warn_count, info_count,
                   log_files, file_idx, file_results, all_logs, source_files,
                   trace_logs, target_kind, target_files, console, log_content>>
    /\ UNCHANGED scan_vars

\* lines 113-116: the path is a file, _parse_trace_logs is called on it
CallParse ==
    /\ pc = "ask"
    /\ Strip(trace_id) # <<>>
    /\ target_kind = "file"
    /\ calls' = Append(calls, "_parse_trace_logs")
    /\ lines' = target_files[1].content
    /\ pc' = "read"
    /\ UNCHANGED <<trace_id, i, logs, error_count, warn_count, info_count,
                   log_files, file_idx, file_results, all_logs, source_files,
                   trace_logs, target_kind, target_files, console, log_content>>
    /\ UNCHANGED scan_vars

\* ScanDirectory without the return of lines 122-125
ScanDirectory_AlwaysMerges ==
    /\ pc = "ask"
    /\ Strip(trace_id) # <<>>
    /\ target_kind = "directory"
    /\ log_files' = target_files
    /\ calls' = calls \o <<"_scan_log_files", "_parse_trace_logs_from_directory">>
    /\ pc' = "scan"
    /\ UNCHANGED <<trace_id, lines, i, logs, error_count, warn_count, info_count,
                   file_idx, file_results, all_logs, source_files, trace_logs,
                   target_kind, target_files, console, log_content>>
    /\ UNCHANGED scan_vars

\* lines 117-131: the path is a directory; it is scanned, and
\* _parse_trace_logs_from_directory is called unless no log file was found
ScanDirectory ==
    /\ pc = "ask"
    /\ Strip(trace_id) # <<>>
    /\ target_kind = "directory"
    /\ log_files' = target_files
    /\ IF target_files = <<>>
       THEN /\ calls' = Append(calls, "_scan_log_files")
            /\ console' = Append(console, Notice("no log files found"))
            /\ pc' = "done"
       ELSE /\ calls' = calls \o <<"_scan_log_files",
                                   "_parse_trace_logs_from_directory">>
            /\ console' = console
            /\ pc' = "scan"
    /\ UNCHANGED <<trace_id, lines, i, logs, error_count, warn_count, info_count,
                   file_idx, file_results, all_logs, source_files, trace_logs,
                   target_kind, target_files, log_content>>
    /\ UNCHANGED scan_vars

\* lines 133-136: the result holds no entry
NoLogsFound ==
    /\ pc = "returned"
    /\ trace_logs.logs = <<>>
    /\ Reject("no logs found for the trace id")

\* lines 139-142: the statistics and the entries are displayed
Display ==
    /\ pc = "returned"
    /\ trace_logs.logs # <<>>
    /\ calls' = calls \o <<"_display_trace_statistics", "_display_trace_logs">>
    /\ console' = console \o _display_trace_statistics(trace_logs)
                      \o _display_trace_logs(trace_logs)
    /\ pc' = "confirm"
    /\ UNCHANGED <<trace_id, lines, i, logs, error_count, warn_count, info_count,
                   log_files, file_idx, file_results, all_logs, source_files,
                   trace_logs, target_kind, target_files, log_content>>
    /\ UNCHANGED scan_vars

\* Decline with the language model called all the same
Decline_StillAnalyses ==
    /\ pc = "confirm"
    /\ pc' = "done"
    /\ console' = Append(console, Confirmation(FALSE))
    /\ calls' = Append(calls, "llm.analyze_error_log")
    /\ UNCHANGED <<trace_id, lines, i, logs, error_count, warn_count, info_count,
                   log_files, file_idx, file_results, all_logs, source_files,
                   trace_logs, target_kind, target_files, log_content>>
    /\ UNCHANGED scan_vars

\* line 145: the user declines the analysis
Decline ==
    /\ pc = "confirm"
    /\ pc' = "done"
    /\ console' = Append(console, Confirmation(FALSE))
    /\ UNCHANGED <<trace_id, lines, i, logs, error_count, warn_count, info_count,
                   log_files, file_idx, file_results, all_logs, source_files,
                   trace_logs, target_kind, target_files, calls, log_content>>
    /\ UNCHANGED scan_vars

\* lines 145-159: the user confirms; the entries are formatted and handed to
\* the language model, which answers with an analysis or with none
Analyse ==
    /\ pc = "confirm"
    /\ calls' = calls \o <<"_format_trace_for_analysis", "llm.analyze_error_log">>
    /\ log_content' = _format_trace_for_analysis(trace_logs, trace_id)
    /\ \E answered \in BOOLEAN :
          console' = console \o <<Confirmation(TRUE), Notice("analysing the trace"),
                                  IF answered THEN [kind |-> "analysis"]
                                  ELSE Notice("analysis failed")>>
    /\ pc' = "done"
    /\ UNCHANGED <<trace_id, lines, i, logs, error_count, warn_count, info_count,
                   log_files, file_idx, file_results, all_logs, source_files,
                   trace_logs, target_kind, target_files>>
    /\ UNCHANGED scan_vars

NextRun ==
    \/ RejectEmptyId
    \/ RejectMissingPath
    \/ CallParse
    \/ ScanDirectory
    \/ Next
    \/ NextDir
    \/ NoLogsFound
    \/ Display
    \/ Decline
    \/ Analyse

SpecRun == InitRun /\ [][NextRun]_vars

\* _parse_trace_logs and _parse_trace_logs_from_directory run in the one
\* thread of their caller and wait for nothing but the read of a file, so a
\* step of theirs that can be taken is taken
SpecRunFair == SpecRun /\ WF_vars(Next \/ NextDir)

(***************************************************************************)
(* Specification SpecSortFails: the merge where sorted() may raise.  With  *)
(* the entries _parse_trace_logs makes, neither parse_timestamp nor the    *)
(* comparison of its datetimes raises; what is left is an exception of the *)
(* interpreter (MemoryError is an Exception), taken here as a choice of    *)
(* the environment.                                                        *)
(***************************************************************************)
\* SortFailed with "return []" in the except branch
SortFailed_Empty(seq) == <<>>

\* lines 734-736: what _sort_logs_by_timestamp returns when sorted() has
\* raised
SortFailed(seq) == seq

\* lines 676-691 with the except branch of line 734 taken: the notice of
\* line 735 is printed and the result is returned
MergeReturnUnsorted ==
    /\ pc = "scan"
    /\ file_idx = Len(log_files)
    /\ pc' = "returned"
    /\ all_logs' = SortFailed(all_logs)
    /\ console' = Append(console, Notice("sorting failed, original order kept"))
    /\ trace_logs' =
           [trace_id |-> trace_id,
            file |-> DirectoryLabel(Len(log_files)),
            source_files |-> source_files,
            total_logs |-> Len(all_logs'),
            error_count |-> error_count,
            warn_count |-> warn_count,
            info_count |-> info_count,
            logs |-> all_logs']
    /\ UNCHANGED <<trace_id, lines, i, logs, error_count, warn_count, info_count,
                   log_files, file_idx, file_results, source_files>>
    /\ UNCHANGED <<target_kind, target_files, calls, log_content>>
    /\ UNCHANGED scan_vars

NextSortFails == ScanFile \/ MergeReturn \/ MergeReturnUnsorted

SpecSortFails == InitDir /\ [][NextSortFails]_vars

(***************************************************************************)
(* Specification SpecClassify: one call of _extract_timestamp and of       *)
(* _extract_log_level on one line (lines 397-398), the line being words    *)
(* with one space between them.                                            *)
(***************************************************************************)
\* the greatest number of words of the line
MaxTokens == 2

\* 'error'
Tok_error ==
    <<"e", "r", "r", "o", "r">>

\* 'MYERRORS'
Tok_MYERRORS ==
    <<"M", "Y", "E", "R", "R", "O", "R", "S">>

\* '2024-01-01 10:00:00'
Tok_DateSpace ==
    <<"2", "0", "2", "4", "-", "0", "1", "-", "0", "1", " ", "1", "0", ":",
      "0", "0", ":", "0", "0">>

\* '2024-01-02T11:00:00'
Tok_DateT ==
    <<"2", "0", "2", "4", "-", "0", "1", "-", "0", "2", "T", "1", "1", ":",
      "0", "0", ":", "0", "0">>

\* '03/01/2024 12:00:00'
Tok_DateSlash ==
    <<"0", "3", "/", "0", "1", "/", "2", "0", "2", "4", " ", "1", "2", ":",
      "0", "0", ":", "0", "0">>

\* '2024-01-01'
Tok_DateOnly ==
    <<"2", "0", "2", "4", "-", "0", "1", "-", "0", "1">>

\* the words of the line: the four keywords, a keyword in lower case and
\* one within a longer word, the three forms of a timestamp and a date
\* without time
ClassifyTokens ==
    {T_ERROR, T_WARN, T_INFO, T_DEBUG, Tok_error, Tok_MYERRORS, Tok_DateSpace,
     Tok_DateT, Tok_DateSlash, Tok_DateOnly}

\* the first n words with a space behind each
RECURSIVE JoinTokens(_, _)
JoinTokens(tokens, n) ==
    IF n = 0 THEN <<>>
    ELSE JoinTokens(tokens, n - 1) \o tokens[n] \o <<" ">>

\* the lines that are classified
ClassifyLines ==
    {JoinTokens(tokens, Len(tokens)) \o <<"\n">> :
        tokens \in SeqsUpTo(ClassifyTokens, MaxTokens)}

InitClassify ==
    /\ pc = "classify"
    /\ trace_id = <<>>
    /\ \E line \in ClassifyLines : lines = <<line>>
    /\ i = 0
    /\ logs = <<>>
    /\ error_count = 0
    /\ warn_count = 0
    /\ info_count = 0
    /\ DirIdle
    /\ trace_logs = <<>>
    /\ ScanIdle
    /\ RunIdle

\* lines 397-398: the timestamp and the level of line i
Classify ==
    /\ pc = "classify"
    /\ pc' = "classified"
    /\ logs' = <<[timestamp |-> _extract_timestamp(lines[i + 1]),
                  level |-> _extract_log_level(lines[i + 1])]>>
    /\ UNCHANGED <<trace_id, lines, i, error_count, warn_count, info_count,
                   log_files, file_idx, file_results, all_logs, source_files,
                   trace_logs>>
    /\ UNCHANGED run_vars
    /\ UNCHANGED scan_vars

NextClassify == Classify

SpecClassify == InitClassify /\ [][NextClassify]_vars

(***************************************************************************)
(* Specification SpecScan: one call of _scan_log_files.  The directory is  *)
(* a tree of four directories; os.walk visits a directory before its       *)
(* subdirectories and lists the names of a directory in an order that is   *)
(* not specified.  A path is a sequence of characters.                     *)
(***************************************************************************)
\* the greatest number of files of the tree
MaxTreeFiles == 3

\* '.log'
Ext_log ==
    <<".", "l", "o", "g">>

\* '.txt'
Ext_txt ==
    <<".", "t", "x", "t">>

\* '.out'
Ext_out ==
    <<".", "o", "u", "t">>

\* the list "log_extensions"
log_extensions == <<Ext_log, Ext_txt, Ext_out>>

\* 'logs'
Dir_logs ==
    <<"l", "o", "g", "s">>

\* 'logs/a'
Dir_logs_a ==
    <<"l", "o", "g", "s", "/", "a">>

\* 'logs/a/b'
Dir_logs_a_b ==
    <<"l", "o", "g", "s", "/", "a", "/", "b">>

\* 'logs/z'
Dir_logs_z ==
    <<"l", "o", "g", "s", "/", "z">>

\* 'a.log'
Name_a_log ==
    <<"a", ".", "l", "o", "g">>

\* 'a-b.txt'
Name_a_b_txt ==
    <<"a", "-", "b", ".", "t", "x", "t">>

\* 'c.out'
Name_c_out ==
    <<"c", ".", "o", "u", "t">>

\* 'd.LOG'
Name_d_LOG ==
    <<"d", ".", "L", "O", "G">>

\* 'e.log.gz'
Name_e_log_gz ==
    <<"e", ".", "l", "o", "g", ".", "g", "z">>

\* 'log'
Name_log ==
    <<"l", "o", "g">>

\* the directories of the tree, the first being the argument "directory"
TreeDirs == {Dir_logs, Dir_logs_a, Dir_logs_a_b, Dir_logs_z}

\* the subdirectories of each directory
SubDirs ==
    [dir \in TreeDirs |->
        CASE dir = Dir_logs -> {Dir_logs_a, Dir_logs_z}
          [] dir = Dir_logs_a -> {Dir_logs_a_b}
          [] OTHER -> {}]

\* the names a file can have
TreeNames ==
    {Name_a_log, Name_a_b_txt, Name_c_out, Name_d_LOG, Name_e_log_gz, Name_log}

\* the sets of at most n elements of S
RECURSIVE SubsetsUpTo(_, _)
SubsetsUpTo(S, n) ==
    IF n = 0 THEN {{}}
    ELSE SubsetsUpTo(S, n - 1)
             \cup {T \cup {x} : T \in SubsetsUpTo(S, n - 1), x \in S}

\* the orders in which the elements of S can be listed
Orders(S) ==
    {order \in [1..Cardinality(S) -> S] :
        \A j, k \in 1..Cardinality(S) : order[j] = order[k] => j = k}

\* str.endswith
EndsWith(s, suffix) ==
    /\ Len(suffix) <= Len(s)
    /\ SubSeq(s, Len(s) - Len(suffix) + 1, Len(s)) = suffix

\* the test of line 616 with "ext in file" in the place of endswith
HasLogExtension_Anywhere(file) ==
    \E k \in 1..Len(log_extensions) : Contains(log_extensions[k], file)

\* line 616: any(file.endswith(ext) for ext in log_extensions)
HasLogExtension(file) ==
    \E k \in 1..Len(log_extensions) : EndsWith(file, log_extensions[k])

\* os.path.join(root, file)
path_join(root, file) == root \o <<"/">> \o file

\* the characters of the paths in the order of their code points
CodePointOrder ==
    <<"-", ".", "/">> \o Digits \o UpperCase \o <<"_">> \o LowerCase

\* the place of the character in that order
CodePoint(c) == CHOOSE k \in 1..Len(CodePointOrder) : CodePointOrder[k] = c

\* a < b of two strings: at the first place where they differ a has the
\* lesser character, or a has ended
StrLess(a, b) ==
    \E k \in 1..Len(b) :
        /\ k <= Len(a) + 1
        /\ \A j \in 1..(k - 1) : a[j] = b[j]
        /\ k <= Len(a) => CodePoint(a[k]) < CodePoint(b[k])

\* x put into the sorted list before the first element greater than it
InsertPath(sorted_paths, x) ==
    InsertAt(sorted_paths,
             FirstOr({p \in 1..Len(sorted_paths) : StrLess(x, sorted_paths[p])},
                     Len(sorted_paths) + 1),
             x)

\* line 621: log_files.sort()
RECURSIVE SortPaths(_)
SortPaths(paths) ==
    IF paths = <<>> THEN <<>>
    ELSE InsertPath(SortPaths(SubSeq(paths, 1, Len(paths) - 1)), paths[Len(paths)])

\* lines 614-619: the paths of the names, in their order, that pass the test
RECURSIVE FoundIn(_, _, _)
FoundIn(root, files, n) ==
    IF n = 0 THEN <<>>
    ELSE FoundIn(root, files, n - 1)
             \o (IF HasLogExtension(files[n])
                 THEN <<path_join(root, files[n])>>
                 ELSE <<>>)

InitScan ==
    /\ pc = "walk"
    /\ \E placed \in SubsetsUpTo(TreeDirs \X TreeNames, MaxTreeFiles) :
          tree = [dir \in TreeDirs |-> {name \in TreeNames : <<dir, name>> \in placed}]
    /\ walk = <<Dir_logs>>
    /\ trace_id = <<>>
    /\ lines = <<>>
    /\ i = 0
    /\ logs = <<>>
    /\ error_count = 0
    /\ warn_count = 0
    /\ info_count = 0
    /\ DirIdle
    /\ trace_logs = <<>>
    /\ RunIdle

\* lines 613-619: one iteration of the for loop over os.walk
WalkDirectory ==
    /\ pc = "walk"
    /\ walk # <<>>
    /\ \E files \in Orders(tree[Head(walk)]) :
          log_files' = log_files \o FoundIn(Head(walk), files, Len(files))
    /\ \E dirs \in Orders(SubDirs[Head(walk)]) :
          walk' = dirs \o Tail(walk)
    /\ UNCHANGED <<pc, trace_id, lines, i, logs, error_count, warn_count,
                   info_count, file_idx, file_results, all_logs, source_files,
                   trace_logs, tree>>
    /\ UNCHANGED run_vars

\* lines 621-622: the walk has ended, the list is sorted and returned
ScanReturn ==
    /\ pc = "walk"
    /\ walk = <<>>
    /\ pc' = "scanned"
    /\ log_files' = SortPaths(log_files)
    /\ UNCHANGED <<trace_id, lines, i, logs, error_count, warn_count,
                   info_count, file_idx, file_results, all_logs, source_files,
                   trace_logs, tree, walk>>
    /\ UNCHANGED run_vars

\* lines 623-625: an exception within the try (os.walk itself passes over
\* the directories it cannot list); the notice is printed and [] is returned
ScanFails ==
    /\ pc = "walk"
    /\ pc' = "scanned"
    /\ log_files' = <<>>
    /\ console' = Append(console, Notice("scanning the directory failed"))
    /\ UNCHANGED <<trace_id, lines, i, logs, error_count, warn_count,
                   info_count, file_idx, file_results, all_logs, source_files,
                   trace_logs, tree, walk>>
    /\ UNCHANGED <<target_kind, target_files, calls, log_content>>

NextScan == WalkDirectory \/ ScanReturn \/ ScanFails

SpecScan == InitScan /\ [][NextScan]_vars

(***************************************************************************)
(* Properties of single-source extraction, checked under Spec.             *)
(***************************************************************************)
\* the loop of _parse_trace_logs has run to the end of the source
LoopEnded == pc = "returned" /\ i >= Len(lines) /\ trace_logs.file = SinglePath

\* the entry e was made of line n of the source
MadeOfLine(e, n) ==
    /\ n \in 1..Len(lines)
    /\ trace_id \in LineTable[lines[n]].matches
    /\ e.timestamp = LineTable[lines[n]].timestamp
    /\ e.level = LineTable[lines[n]].level
    /\ e.content = LineTable[lines[n]].content

\* C1: the entries of single-source extraction have strictly increasing
\* line_number values, each the 1-indexed position of the entry's own line,
\* so the list is in encounter order; the list that is returned is that list,
\* not reordered.
C1_LineNumbersAscend ==
    /\ \A k \in 1..Len(logs) :
          /\ MadeOfLine(logs[k], logs[k].line_number)
          /\ k > 1 => logs[k - 1].line_number < logs[k].line_number
    /\ pc = "returned" => trace_logs.logs = logs

\* extraction has returned several entries, and a stack trace lies between
\* two of them
C1_Witness ==
    /\ LoopEnded
    /\ \E k \in 1..(Len(trace_logs.logs) - 1) :
          /\ trace_logs.logs[k].stack_trace # <<>>
          /\ trace_logs.logs[k + 1].line_number
                 > trace_logs.logs[k].line_number + 1

\* the source of the scenario: INFO at 10:00:00, ERROR at 10:00:05, a
\* tab-indented 'at com.foo.Bar.baz' line and WARN at 09:59:59
C5_Scenario ==
    /\ lines = <<Line_start, Line_boom, Line_frame, Line_before>>
    /\ trace_id = Id_req42
    /\ LoopEnded

\* the date and the time of day of a datetime, each as one number that grows
\* with it
DateNumber(dt) == (dt[1] * 13 + dt[2]) * 32 + dt[3]

TimeNumber(dt) == (dt[4] * 60 + dt[5]) * 60 + dt[6]

\* the datetime a is not later than b
NotLater(a, b) ==
    \/ DateNumber(a) < DateNumber(b)
    \/ /\ DateNumber(a) = DateNumber(b)
       /\ \/ TimeNumber(a) < TimeNumber(b)
          \/ TimeNumber(a) = TimeNumber(b) /\ a[7] <= b[7]

\* the entries are in non-decreasing order of their timestamps
ChronologicallySorted(entries) ==
    \A k \in 1..(Len(entries) - 1) :
        NotLater(KeyTable[entries[k].timestamp],
                 KeyTable[entries[k + 1].timestamp])

\* the levels of the entries, in their order
LevelsOf(entries) == [k \in 1..Len(entries) |-> entries[k].level]

Prefixed(line) ==
    \/ Len(line) >= 1 /\ line[1] = "\t"
    \/ Len(line) >= 4 /\ \A k \in 1..4 : line[k] = " "
    \/ Len(line) >= 3 /\ SubSeq(line, 1, 3) = <<"a", "t", " ">>

\* the length of the maximal run of prefixed lines right behind line n
RunBehind(n) ==
    CHOOSE m \in 0..(Len(lines) - n) :
        /\ \A j \in 1..m : Prefixed(lines[n + j])
        /\ n + m < Len(lines) => ~Prefixed(lines[n + m + 1])

\* C6: the stack_trace of the entry of a matched ERROR line n is exactly the
\* maximal run of lines n+1..n+k that start with a tab, four spaces or 'at ',
\* trimmed and in source order; the run stops at the first line without such
\* a prefix or at the end of the source.
C6_StackTraceIsMaximalRun ==
    \A k \in 1..Len(logs) :
        logs[k].level = T_ERROR =>
            logs[k].stack_trace =
                [j \in 1..RunBehind(logs[k].line_number) |->
                    LineTable[lines[logs[k].line_number + j]].content]

\* an ERROR entry holds a stack trace of two lines or more and a line
\* without prefix ends the run
C6_Witness ==
    /\ LoopEnded
    /\ \E k \in 1..Len(logs) :
          /\ logs[k].level = T_ERROR
          /\ Len(logs[k].stack_trace) >= 2
          /\ logs[k].line_number + Len(logs[k].stack_trace) < Len(lines)

\* the positions of the lines held in the stack_trace of the entry e
ConsumedBy(e) == (e.line_number + 1)..(e.line_number + Len(e.stack_trace))

\* the positions of the lines held in some entry's stack_trace
Consumed == UNION {ConsumedBy(logs[k]) : k \in 1..Len(logs)}

\* the line numbers of the entries
EntryLines == {logs[k].line_number : k \in 1..Len(logs)}

\* C7: no entry's line_number is the position of a line held in an entry's
\* stack_trace, even when that line contains the identifier; the scan never
\* goes back behind a line it has consumed, and when it has ended every
\* matching line is an entry or is held in a stack trace (none is skipped),
\* the first line behind a consumed run included.
C7_ConsumedLinesAreNoEntries ==
    /\ EntryLines \cap Consumed = {}
    /\ \A n \in EntryLines \cup Consumed : n <= i
    /\ LoopEnded =>
          \A n \in 1..Len(lines) :
              trace_id \in LineTable[lines[n]].matches =>
                  n \in EntryLines \cup Consumed

\* a consumed line contains the identifier and the line behind the consumed
\* run is an entry
C7_Witness ==
    /\ LoopEnded
    /\ \E k \in 1..Len(logs) :
          /\ \E n \in ConsumedBy(logs[k]) :
                trace_id \in LineTable[lines[n]].matches
          /\ logs[k].line_number + Len(logs[k].stack_trace) + 1 \in EntryLines

\* C9: when a matched line that is not ERROR is immediately followed by an
\* indented continuation line, that line is not attached to the entry, and
\* if it contains the identifier it is the next entry, with the next line
\* number.
C9_ContinuationBehindNonError ==
    LoopEnded =>
        \A k \in 1..Len(logs) :
            (/\ logs[k].level # T_ERROR
             /\ logs[k].line_number < Len(lines)
             /\ Prefixed(lines[logs[k].line_number + 1]))
            => /\ logs[k].stack_trace = <<>>
               /\ trace_id \in LineTable[lines[logs[k].line_number + 1]].matches
                     => /\ k < Len(logs)
                        /\ logs[k + 1].line_number = logs[k].line_number + 1
                        /\ MadeOfLine(logs[k + 1], logs[k].line_number + 1)

\* a WARN entry is followed by the entry of an indented line
C9_Witness ==
    /\ LoopEnded
    /\ \E k \in 1..(Len(logs) - 1) :
          /\ logs[k].level = T_WARN
          /\ Prefixed(lines[logs[k].line_number + 1])
          /\ logs[k + 1].line_number = logs[k].line_number + 1

\* the text occurs in the line at position p when letter case is ignored
FoldedAt(text, line, p) ==
    /\ p + Len(text) - 1 <= Len(line)
    /\ \A k \in 1..Len(text) : Lower(line[p + k - 1]) = Lower(text[k])

\* the text occurs in the line when letter case is ignored
Occurs(text, line) == \E p \in 1..Len(line) : FoldedAt(text, line, p)

\* the key, '=' or ':', whitespace or none, and the identifier occur in the
\* line one after the other when letter case is ignored
KeyedOccurs(key, tid, line) ==
    \E p \in 1..Len(line) :
        /\ FoldedAt(key, line, p)
        /\ p + Len(key) <= Len(line)
        /\ line[p + Len(key)] \in {"=", ":"}
        /\ \E q \in (p + Len(key) + 1)..Len(line) :
              /\ \A r \in (p + Len(key) + 1)..(q - 1) : line[r] \in Whitespace
              /\ FoldedAt(tid, line, q)

\* one of the six patterns occurs in the line
SomePatternOccurs(line, tid) ==
    \/ KeyedOccurs(T_traceId, tid, line)
    \/ KeyedOccurs(T_trace_id, tid, line)
    \/ Occurs(<<"[">> \o tid \o <<"]">>, line)
    \/ KeyedOccurs(T_requestId, tid, line)
    \/ KeyedOccurs(T_request_id, tid, line)
    \/ Occurs(tid, line)

\* the identifiers of which a pattern occurs in each line, and those that
\* occur in brackets
Occurrences ==
    [line \in LinePool |->
        [any |-> {tid \in TraceIds : SomePatternOccurs(line, tid)},
         bracketed |-> {tid \in TraceIds :
                           Occurs(<<"[">> \o tid \o <<"]">>, line)}]]

\* C10: a line matches the identifier if and only if at least one of the six
\* patterns occurs in it case-insensitively: when the scan has ended, a line
\* that is not held in a stack trace is an entry exactly if a pattern occurs
\* in it; in particular a line that contains [REQ-42] in any letter case is
\* an entry for the identifier req-42.
C10_MatchesIffSomePattern ==
    LoopEnded =>
        \A n \in (1..Len(lines)) \ Consumed :
            /\ n \in EntryLines <=> trace_id \in Occurrences[lines[n]].any
            /\ trace_id \in Occurrences[lines[n]].bracketed => n \in EntryLines

\* the identifier req-42 is matched in another letter case, and a line
\* without the identifier is left out
C10_Witness ==
    /\ LoopEnded
    /\ trace_id = Id_req42
    /\ \E k \in 1..Len(logs) :
          /\ lines[logs[k].line_number] = Line_at
          /\ ~Contains(Id_req42, Line_at)
    /\ \E n \in (1..Len(lines)) \ (EntryLines \cup Consumed) : lines[n] = Line_noid


\* the patterns of the list, by their place, that re.search finds in each
\* line for each identifier
PatternsFound ==
    [line \in LinePool |->
        [tid \in TraceIds |->
            {k \in 1..Len(trace_patterns(tid)) :
                re_search(trace_patterns(tid)[k], line, TRUE) # <<>>}]]

\* the identifiers that occur in each line when letter case is ignored
RawOccurrences == [line \in LinePool |-> {tid \in TraceIds : Occurs(tid, line)}]

\* C26: the test of the six patterns is the test of the last one alone: a
\* line is matched exactly if the identifier occurs in it when letter case
\* is ignored, and none of the five patterns with a delimiter is found in a
\* line in which the identifier by itself is not.
C26_SixPatternsAreOne ==
    /\ \A n \in 1..Len(lines) :
          /\ PatternsFound[lines[n]][trace_id] # {}
                <=> trace_id \in RawOccurrences[lines[n]]
          /\ PatternsFound[lines[n]][trace_id] # {}
                => Len(trace_patterns(trace_id)) \in PatternsFound[lines[n]][trace_id]
    /\ LoopEnded =>
          \A n \in (1..Len(lines)) \ Consumed :
              n \in EntryLines <=> trace_id \in RawOccurrences[lines[n]]

\* a line with 'traceId:' and another identifier was left out, and a line
\* that holds the identifier within a word is an entry
C26_Witness ==
    /\ LoopEnded
    /\ trace_id = Id_Bar
    /\ \E n \in (1..Len(lines)) \ (EntryLines \cup Consumed) : lines[n] = Line_keyed
    /\ \E k \in 1..Len(logs) : lines[logs[k].line_number] = Line_frame

\* a line was matched by a pattern with a delimiter and by the last one
C26_WitnessDelimited ==
    /\ LoopEnded
    /\ trace_id = Id_req42
    /\ \E k \in 1..Len(logs) :
          /\ lines[logs[k].line_number] = Line_keyed
          /\ PatternsFound[Line_keyed][Id_req42] = {1, 6}

\* the entries whose own line is line n
OwnersOf(n) == {k \in 1..Len(logs) : logs[k].line_number = n}

\* the entries that hold line n in their stack trace
HoldersOf(n) == {k \in 1..Len(logs) : n \in ConsumedBy(logs[k])}

\* line n stands in the run of prefixed lines right behind the line of an
\* ERROR entry
InRunOfErrorEntry(n) ==
    \E k \in 1..Len(logs) :
        /\ logs[k].level = T_ERROR
        /\ logs[k].line_number < n
        /\ \A j \in (logs[k].line_number + 1)..n : Prefixed(lines[j])

\* C27: the extraction gives every line one role: it is the own line of
\* one entry, or it is held in the stack trace of one entry, or it is
\* skipped, and it is skipped only if the identifier does not occur in it; a
\* line with a continuation prefix in which the identifier occurs, and which
\* is not in the run behind the line of an ERROR entry (it follows an ERROR
\* line without the identifier, say), is the own line of an entry.
C27_LinesArePartitioned ==
    /\ \A n \in 1..Len(lines) :
          Cardinality(OwnersOf(n)) + Cardinality(HoldersOf(n)) <= 1
    /\ LoopEnded =>
          \A n \in 1..Len(lines) :
              /\ (OwnersOf(n) = {} /\ HoldersOf(n) = {})
                    => trace_id \notin RawOccurrences[lines[n]]
              /\ HoldersOf(n) # {} => InRunOfErrorEntry(n)
              /\ (/\ Prefixed(lines[n])
                  /\ trace_id \in RawOccurrences[lines[n]]
                  /\ ~InRunOfErrorEntry(n))
                    => Cardinality(OwnersOf(n)) = 1

\* a prefixed line with the identifier behind an ERROR line without it is an
\* entry, and the source has lines of the two other roles
C27_Witness ==
    /\ LoopEnded
    /\ \E n \in 1..(Len(lines) - 1) :
          /\ lines[n] = Line_noid
          /\ lines[n + 1] = Line_at
          /\ OwnersOf(n) = {} /\ HoldersOf(n) = {}
          /\ OwnersOf(n + 1) # {}
    /\ Consumed # {}

(***************************************************************************)
(* Properties of the merge, checked under SpecDir.                         *)
(***************************************************************************)
\* the entries the extraction of file k returned, each with the name of the
\* file
FromSource(k) ==
    [j \in 1..Len(file_results[k].logs) |->
        file_results[k].logs[j]
            @@ ("source_file" :> log_files[k].path[Len(log_files[k].path)])]

\* the concatenation of the extraction results of the first n files
RECURSIVE Concatenation(_)
Concatenation(n) ==
    IF n = 0 THEN <<>> ELSE Concatenation(n - 1) \o FromSource(n)

\* the number of entries the first n files gave
RECURSIVE EntryCount(_)
EntryCount(n) ==
    IF n = 0 THEN 0 ELSE EntryCount(n - 1) + Len(file_results[n].logs)

\* the entry without the name of its file
Untagged(e) == [f \in DOMAIN e \ {"source_file"} |-> e[f]]

\* how often the entry x, whatever file it is of, occurs in the list
Occurrence(x, entries) ==
    Cardinality({k \in 1..Len(entries) : Untagged(entries[k]) = x})

\* the two lists hold the same entries equally often
SameEntries(a, b) ==
    \A x \in {Untagged(a[k]) : k \in 1..Len(a)} \cup {Untagged(b[k]) : k \in 1..Len(b)} :
        Occurrence(x, a) = Occurrence(x, b)

\* C2: the merged logs of the directory-mode result are a permutation of the
\* concatenation of the per-source extraction results: the length is the sum
\* of the per-source entry counts, no entry is lost and none is duplicated.
C2_MergedIsPermutation ==
    pc = "returned" =>
        /\ Len(file_results) = Len(log_files)
        /\ Len(trace_logs.logs) = EntryCount(Len(file_results))
        /\ trace_logs.total_logs = EntryCount(Len(file_results))
        /\ SameEntries(trace_logs.logs, Concatenation(Len(file_results)))

\* two files gave entries and the merge has changed their order
C2_Witness ==
    /\ pc = "returned"
    /\ Len(source_files) >= 2
    /\ Len(trace_logs.logs) >= 3
    /\ trace_logs.logs # Concatenation(Len(file_results))

\* whether strptime accepts the timestamp in one of the formats
HasParsedTimestamp ==
    [ts \in DOMAIN KeyTable |->
        /\ ts # Unknown
        /\ \E k \in 1..Len(formats) :
              strptime(WithoutFraction(ts), formats[k]) # ValueError]

\* every entry of the list has a parsed timestamp
AllParsed(entries) ==
    \A k \in 1..Len(entries) : HasParsedTimestamp[entries[k].timestamp]

\* C3: if every entry of the merge input has a parsed timestamp, the merged
\* logs are non-decreasing by parsed timestamp, whatever the number of
\* sources, the interleaving of the timestamps and their formats.
C3_MergedIsChronological ==
    (pc = "returned" /\ AllParsed(Concatenation(Len(file_results))))
        => ChronologicallySorted(trace_logs.logs)

\* the timestamp formats of the entries of the list
FormatsOf(entries) ==
    {CHOOSE f \in 1..Len(formats) :
         strptime(WithoutFraction(entries[k].timestamp), formats[f]) # ValueError :
     k \in 1..Len(entries)}

\* entries of two files and of three timestamp formats, all parsed, were out
\* of order before the merge
C3_Witness ==
    /\ pc = "returned"
    /\ Len(source_files) >= 2
    /\ AllParsed(trace_logs.logs)
    /\ Cardinality(FormatsOf(trace_logs.logs)) >= 3
    /\ ~ChronologicallySorted(Concatenation(Len(file_results)))

IsUnknown(e) == e.timestamp = Unknown

\* C4: in the merged output every entry whose timestamp is "Unknown" comes
\* before every entry that has a parsed timestamp, and the Unknown entries
\* keep the relative order they have in the concatenated input.
C4_UnknownFirst ==
    pc = "returned" =>
        /\ \A p, q \in 1..Len(trace_logs.logs) :
              (/\ IsUnknown(trace_logs.logs[p])
               /\ HasParsedTimestamp[trace_logs.logs[q].timestamp])
              => p < q
        /\ SelectSeq(trace_logs.logs, IsUnknown)
               = SelectSeq(Concatenation(Len(file_results)), IsUnknown)

\* the part of C4 the code keeps: the Unknown entries keep their relative
\* order, and come before every parsed timestamp that is later than
\* datetime.min
C4_UnknownFirstButMin ==
    pc = "returned" =>
        /\ \A p, q \in 1..Len(trace_logs.logs) :
              (/\ IsUnknown(trace_logs.logs[p])
               /\ HasParsedTimestamp[trace_logs.logs[q].timestamp]
               /\ KeyTable[trace_logs.logs[q].timestamp] # datetime_min)
              => p < q
        /\ SelectSeq(trace_logs.logs, IsUnknown)
               = SelectSeq(Concatenation(Len(file_results)), IsUnknown)

\* the stack trace of every entry that is not ERROR is empty
OnlyErrorsHoldStackTraces(entries) ==
    \A k \in 1..Len(entries) :
        entries[k].level # T_ERROR => entries[k].stack_trace = <<>>

\* C8: in every result of extraction and of merge, every entry whose level
\* is not ERROR has an empty stack_trace, whatever lines follow it in the
\* source.
C8_NonErrorHasNoStackTrace ==
    /\ \A k \in 1..Len(file_results) :
          OnlyErrorsHoldStackTraces(file_results[k].logs)
    /\ OnlyErrorsHoldStackTraces(all_logs)
    /\ pc = "returned" => OnlyErrorsHoldStackTraces(trace_logs.logs)

\* two files gave entries, and the line behind an entry of a level other than
\* ERROR is an indented line
C8_Witness ==
    /\ pc = "returned"
    /\ Len(source_files) >= 2
    /\ \E f \in 1..Len(file_results) :
          \E k \in 1..Len(file_results[f].logs) :
              /\ file_results[f].logs[k].level # T_ERROR
              /\ file_results[f].logs[k].line_number < Len(log_files[f].content)
              /\ Prefixed(log_files[f].content[file_results[f].logs[k].line_number + 1])

(***************************************************************************)
(* Further properties of single-source extraction, checked under Spec.     *)
(***************************************************************************)
\* a character of a token: a letter or a digit
TokenChars ==
    {Digits[k] : k \in 1..Len(Digits)}
        \cup {UpperCase[k] : k \in 1..Len(UpperCase)}
        \cup {LowerCase[k] : k \in 1..Len(LowerCase)}

\* one of the five patterns with a delimiter occurs in the line
DelimitedOccurs(line, tid) ==
    \/ KeyedOccurs(T_traceId, tid, line)
    \/ KeyedOccurs(T_trace_id, tid, line)
    \/ Occurs(<<"[">> \o tid \o <<"]">>, line)
    \/ KeyedOccurs(T_requestId, tid, line)
    \/ KeyedOccurs(T_request_id, tid, line)

\* the identifier occurs in the line, but only as the beginning of a longer
\* token, and no pattern with a delimiter occurs
OnlyInLongerToken(line, tid) ==
    /\ Occurs(tid, line)
    /\ \A p \in 1..Len(line) :
          FoldedAt(tid, line, p) =>
              /\ p + Len(tid) <= Len(line)
              /\ line[p + Len(tid)] \in TokenChars
    /\ ~DelimitedOccurs(line, tid)

\* the identifiers that occur in each line only inside a longer token
LongerTokens ==
    [line \in LinePool |-> {tid \in TraceIds : OnlyInLongerToken(line, tid)}]

\* C11 as stated: a line in which the identifier occurs only inside a longer
\* token (req-42 in req-429), with no delimiter pattern matching, is not in
\* the result.
C11_AsStated ==
    LoopEnded =>
        \A n \in 1..Len(lines) :
            trace_id \in LongerTokens[lines[n]] => n \notin EntryLines

\* C11 amended: such a line is in the result, because the sixth pattern is
\* the identifier itself, matched as a plain substring: when the scan has
\* ended the line is an entry unless it is held in a stack trace.
C11_LongerTokenMatches ==
    LoopEnded =>
        \A n \in (1..Len(lines)) \ Consumed :
            trace_id \in LongerTokens[lines[n]] =>
                \E k \in 1..Len(logs) :
                    logs[k].line_number = n /\ MadeOfLine(logs[k], n)

\* the line '   req-429 DEBUG' is an entry of the result for req-42
C11_Witness ==
    /\ LoopEnded
    /\ trace_id = Id_req42
    /\ Id_req42 \in LongerTokens[Line_longer]
    /\ \E k \in 1..Len(trace_logs.logs) :
          lines[trace_logs.logs[k].line_number] = Line_longer


(***************************************************************************)
(* Properties of run_trace_analysis, checked under SpecRun.                *)
(***************************************************************************)
\* the identifier passes the check of line 99
IdAccepted == Strip(trace_id) # <<>>

\* a result has been returned to run_trace_analysis
HasResult == DOMAIN trace_logs # {}

\* the result has no entry, no contributing file and counts of zero
EmptyDirectoryResult ==
    /\ HasResult
    /\ trace_logs.error_count = 0
    /\ trace_logs.warn_count = 0
    /\ trace_logs.info_count = 0
    /\ trace_logs.total_logs = 0
    /\ trace_logs.source_files = <<>>
    /\ trace_logs.logs = <<>>

\* no line of a file of the directory holds the identifier
NoLineMatches ==
    \A k \in 1..Len(target_files) :
        \A n \in 1..Len(target_files[k].content) :
            trace_id \notin LineTable[target_files[k].content[n]].matches

\* C12 as stated: for a directory with zero matching log files the trace
\* result has counts of zero, an empty source_files and an empty logs.
C12_AsStated ==
    (/\ pc = "done"
     /\ IdAccepted
     /\ target_kind = "directory"
     /\ target_files = <<>>)
    => EmptyDirectoryResult

\* C12 amended: for a directory in which the scan finds no log file the run
\* ends with a notice, without a call of the merge and without a result;
\* for a directory whose log files hold no line with the identifier the
\* result has counts of zero, an empty source_files and an empty logs, and
\* the run ends with a notice.
C12_NoLogFilesNoResult ==
    (pc = "done" /\ IdAccepted /\ target_kind = "directory")
    => /\ target_files = <<>>
          => /\ ~HasResult
             /\ calls = <<"_scan_log_files">>
             /\ console = <<Notice("no log files found")>>
       /\ (target_files # <<>> /\ NoLineMatches)
          => /\ EmptyDirectoryResult
             /\ Len(file_results) = Len(target_files)
             /\ calls = <<"_scan_log_files", "_parse_trace_logs_from_directory">>
             /\ console = <<Notice("no logs found for the trace id")>>

\* the run on a directory without log files has ended
C12_Witness ==
    /\ pc = "done"
    /\ IdAccepted
    /\ target_kind = "directory"
    /\ target_files = <<>>
    /\ Len(console) = 1

\* the run on a directory of two log files without the identifier has ended
C12_WitnessNoMatch ==
    /\ pc = "done"
    /\ IdAccepted
    /\ target_kind = "directory"
    /\ Len(target_files) = 2
    /\ \A k \in 1..2 : target_files[k].content # <<>>
    /\ NoLineMatches


(***************************************************************************)
(* Further properties of the merge, checked under SpecDir.                 *)
(***************************************************************************)
\* the file can be read
IsReadable(file) == file.readable

\* the scan with the files removed that cannot be read
WithoutFailed ==
    _parse_trace_logs_from_directory(SelectSeq(log_files, IsReadable), trace_id)

\* the extraction of every file that could not be read returned no entry and
\* counts of zero, and nothing else went wrong: every file was processed
FailuresAreIsolated ==
    /\ \A k \in 1..Len(file_results) :
          ~log_files[k].readable =>
              /\ file_results[k].logs = <<>>
              /\ file_results[k].total_logs = 0
              /\ file_results[k].error_count = 0
              /\ file_results[k].warn_count = 0
              /\ file_results[k].info_count = 0
    /\ pc = "returned" => Len(file_results) = Len(log_files)

\* C13 as stated: a read failure on one source yields an empty entry list
\* and counts of zero for that source, every later source is still
\* processed, and the merged result equals the result of the same scan with
\* the failing source removed.
C13_AsStated ==
    /\ FailuresAreIsolated
    /\ pc = "returned" => trace_logs = WithoutFailed

\* C13 amended: a read failure on one source yields an empty entry list and
\* counts of zero for that source, every later source is still processed,
\* and the merged result has the logs, the counts, the total and the
\* source_files of the same scan with the failing source removed; its
\* descriptor 'file' still counts the failing source among the files.
C13_FailureIsIsolated ==
    /\ FailuresAreIsolated
    /\ pc = "returned" =>
          /\ trace_logs.logs = WithoutFailed.logs
          /\ trace_logs.total_logs = WithoutFailed.total_logs
          /\ trace_logs.error_count = WithoutFailed.error_count
          /\ trace_logs.warn_count = WithoutFailed.warn_count
          /\ trace_logs.info_count = WithoutFailed.info_count
          /\ trace_logs.source_files = WithoutFailed.source_files
          /\ trace_logs.file = DirectoryLabel(Len(log_files))
          /\ trace_logs = _parse_trace_logs_from_directory(log_files, trace_id)

\* the first file could not be read and a later file gave entries
C13_Witness ==
    /\ pc = "returned"
    /\ Len(log_files) >= 2
    /\ ~log_files[1].readable
    /\ trace_logs.logs # <<>>
    /\ trace_logs.file # WithoutFailed.file


\* the number of entries of the level
CountOf(entries, level) ==
    Cardinality({k \in 1..Len(entries) : entries[k].level = level})

\* the counts of the result are the numbers of its ERROR, WARN and INFO
\* entries
CountsMatchLevels(result) ==
    /\ result.error_count = CountOf(result.logs, T_ERROR)
    /\ result.warn_count = CountOf(result.logs, T_WARN)
    /\ result.info_count = CountOf(result.logs, T_INFO)

\* the sum of the field over the results of the first n files
RECURSIVE SumOver(_, _)
SumOver(field, n) ==
    IF n = 0 THEN 0 ELSE SumOver(field, n - 1) + file_results[n][field]

\* C14: in every result error_count, warn_count and info_count are the
\* numbers of entries of logs whose level is ERROR, WARN and INFO; DEBUG and
\* UNKNOWN entries are counted nowhere; and the merged counts are the sums
\* of the per-source counts.
C14_CountsMatchLevels ==
    /\ \A k \in 1..Len(file_results) : CountsMatchLevels(file_results[k])
    /\ pc = "returned" =>
          /\ CountsMatchLevels(trace_logs)
          /\ trace_logs.error_count + trace_logs.warn_count + trace_logs.info_count
                 = Len(trace_logs.logs) - CountOf(trace_logs.logs, T_DEBUG)
                       - CountOf(trace_logs.logs, T_UNKNOWN)
          /\ trace_logs.error_count = SumOver("error_count", Len(file_results))
          /\ trace_logs.warn_count = SumOver("warn_count", Len(file_results))
          /\ trace_logs.info_count = SumOver("info_count", Len(file_results))

\* two files gave a DEBUG entry, an UNKNOWN entry and an entry that is
\* counted
C14_Witness ==
    /\ pc = "returned"
    /\ Len(source_files) >= 2
    /\ CountOf(trace_logs.logs, T_DEBUG) >= 1
    /\ CountOf(trace_logs.logs, T_UNKNOWN) >= 1
    /\ trace_logs.error_count + trace_logs.warn_count + trace_logs.info_count >= 1


\* the sum of the three counts of the result
Counted(result) == result.error_count + result.warn_count + result.info_count

\* an entry of the result has a level that no counter counts
HasUncounted(result) ==
    \E k \in 1..Len(result.logs) : result.logs[k].level \in {T_DEBUG, T_UNKNOWN}

\* total_logs is the length of logs, the three counts sum to at most
\* total_logs, and to total_logs exactly when no entry is DEBUG or UNKNOWN
TotalsAgree(result) ==
    /\ result.total_logs = Len(result.logs)
    /\ Counted(result) <= result.total_logs
    /\ (Counted(result) = result.total_logs) <=> ~HasUncounted(result)

\* C28: in every result, of one file (also of a file that could not be
\* read) and of a directory, total_logs is the length of logs, and
\* error_count + warn_count + info_count is at most total_logs, and equal to
\* it if and only if no entry has the level DEBUG or UNKNOWN.
C28_TotalsAgree ==
    /\ \A k \in 1..Len(file_results) : TotalsAgree(file_results[k])
    /\ pc = "returned" => TotalsAgree(trace_logs)

\* a directory result with an uncounted entry, made of the result of a file
\* whose counts sum to its total and of the result of a file where they do
\* not
C28_Witness ==
    /\ pc = "returned"
    /\ Counted(trace_logs) < trace_logs.total_logs
    /\ \E j, k \in 1..Len(file_results) :
          /\ file_results[j].logs # <<>>
          /\ Counted(file_results[j]) = file_results[j].total_logs
          /\ Counted(file_results[k]) >= 1
          /\ Counted(file_results[k]) < file_results[k].total_logs

\* the directory holds one file, and the merge over it has returned
OneFileMerged == pc = "returned" /\ Len(log_files) = 1

\* what the single-file mode returns for the one file of the directory
SingleFileResult == _parse_trace_logs(log_files[1], trace_id)

\* the fields the two modes have to agree on
SharedFields == {"trace_id", "total_logs", "error_count", "warn_count", "info_count"}

\* the entries stand in the order of their lines
InLineOrder(entries) ==
    \A a, b \in 1..Len(entries) :
        a < b => entries[a].line_number < entries[b].line_number

\* C29: for a directory of one file F, the directory-mode result and the
\* single-file result on F agree on the identifier, on total_logs and on the
\* three counts, and hold the same entries equally often once the
\* source_file tag (the base name of F) is taken off; what differs is the
\* order (line order for the file, timestamp order for the directory), the
\* field "file" (the path of F, the directory label) and the field
\* source_files, which only the directory result has.
C29_OneFileDirectoryAgreesWithFile ==
    OneFileMerged =>
        /\ \A f \in SharedFields : trace_logs[f] = SingleFileResult[f]
        /\ SameEntries(trace_logs.logs, SingleFileResult.logs)
        /\ \A k \in 1..Len(trace_logs.logs) :
              /\ "source_file" \in DOMAIN trace_logs.logs[k]
              /\ trace_logs.logs[k].source_file = basename(log_files[1].path)
        /\ \A k \in 1..Len(SingleFileResult.logs) :
              "source_file" \notin DOMAIN SingleFileResult.logs[k]
        /\ DOMAIN trace_logs = DOMAIN SingleFileResult \cup {"source_files"}
        /\ SingleFileResult.file = log_files[1].path
        /\ trace_logs.file = DirectoryLabel(1)
        /\ InLineOrder(SingleFileResult.logs)
        /\ AllParsed(SingleFileResult.logs) => ChronologicallySorted(trace_logs.logs)

\* the one file has entries whose line order is not their timestamp order,
\* so that the two results hold them in different orders
C29_Witness ==
    /\ OneFileMerged
    /\ Len(SingleFileResult.logs) >= 2
    /\ AllParsed(SingleFileResult.logs)
    /\ ~ChronologicallySorted(SingleFileResult.logs)
    /\ ~InLineOrder(trace_logs.logs)
    /\ Counted(SingleFileResult) >= 2

\* the positions of source_files that hold the path
ListedAt(path) == {j \in 1..Len(source_files) : source_files[j] = path}

\* C15: in directory mode source_files holds exactly the scanned sources
\* that gave at least one entry: a source is in it if and only if its
\* extraction returned a non-empty entry list, each such source is in it
\* once, and a source without match or with a read failure is not in it.
C15_SourceFilesAreContributors ==
    /\ \A k \in 1..Len(file_results) :
          /\ file_results[k].logs # <<>>
                => Cardinality(ListedAt(log_files[k].path)) = 1
          /\ file_results[k].logs = <<>> => ListedAt(log_files[k].path) = {}
          /\ ~log_files[k].readable => ListedAt(log_files[k].path) = {}
    /\ \A j \in 1..Len(source_files) :
          \E k \in 1..Len(file_results) : log_files[k].path = source_files[j]
    /\ pc = "returned" =>
          /\ Len(file_results) = Len(log_files)
          /\ trace_logs.source_files = source_files

\* of two files with lines one gave entries and the other none
C15_Witness ==
    /\ pc = "returned"
    /\ Len(log_files) = 2
    /\ \A k \in 1..2 : log_files[k].content # <<>>
    /\ Len(trace_logs.source_files) = 1


(***************************************************************************)
(* Properties of what is displayed and of what is formatted, checked       *)
(* under SpecRun.                                                          *)
(***************************************************************************)
\* the name "name" is among the calls made
Called(name) == \E k \in 1..Len(calls) : calls[k] = name

\* what the extraction or the merge of the run returns
RunResult ==
    IF target_kind = "file"
    THEN _parse_trace_logs(target_files[1], trace_id)
    ELSE _parse_trace_logs_from_directory(target_files, trace_id)

\* the lines of the formatted text that open a block
BlockStarts == {p \in 1..Len(log_content) : log_content[p][1] = "log"}

\* the line that opens block number k
StartOf(k) ==
    CHOOSE p \in BlockStarts :
        Cardinality({q \in BlockStarts : q < p}) = k - 1

\* the last line of the block that starts at line p
BlockEnd(p) ==
    (CHOOSE q \in (p + 1)..Len(log_content) :
        /\ log_content[q][1] \in {"log", "rule"}
        /\ \A r \in (p + 1)..(q - 1) : log_content[r][1] \notin {"log", "rule"})
    - 1

\* the lines of block number k
BlockLines(k) == SubSeq(log_content, StartOf(k), BlockEnd(StartOf(k)))

IsStackLine(l) == l[1] = "  "

IsContentLine(l) == l[1] = "content"

\* the second part of every line of a sequence of lines
SecondParts(ls) == [n \in 1..Len(ls) |-> ls[n][2]]

\* the panels the console holds
Panels == SelectSeq(console, LAMBDA item : item.kind = "panel")

\* C16: the formatted text holds one block per entry of logs, in the order
\* of logs, each with the content and with every line of the stack trace of
\* its entry, whatever the number of entries; the display shows the first
\* min(20, n) entries, and the logs that are formatted are the logs the
\* extraction or the merge returned.
C16_FormatterNeverTruncates ==
    /\ Called("_display_trace_logs") =>
          /\ Len(Panels) = Min(DisplayLimit, Len(trace_logs.logs))
          /\ \A k \in 1..Len(Panels) :
                /\ Panels[k].title[2] = k
                /\ Panels[k].content_lines[1] = trace_logs.logs[k].content
          /\ trace_logs = RunResult
    /\ Called("_format_trace_for_analysis") =>
          /\ trace_logs = RunResult
          /\ Cardinality(BlockStarts) = Len(trace_logs.logs)
          /\ \A k \in 1..Len(trace_logs.logs) :
                /\ log_content[StartOf(k)][2] = k
                /\ log_content[StartOf(k)][3] = trace_logs.logs[k].level
                /\ SecondParts(SelectSeq(BlockLines(k), IsContentLine))
                       = <<trace_logs.logs[k].content>>
                /\ SecondParts(SelectSeq(BlockLines(k), IsStackLine))
                       = trace_logs.logs[k].stack_trace

\* more than 20 entries were displayed and formatted
C16_Witness ==
    /\ pc = "done"
    /\ Called("_format_trace_for_analysis")
    /\ Len(trace_logs.logs) > DisplayLimit
    /\ \E k \in 1..Len(console) : console[k].kind = "more"

\* an entry with more than 15 lines of stack trace was displayed and formatted
C16_WitnessLongStack ==
    /\ pc = "done"
    /\ Called("_format_trace_for_analysis")
    /\ \E k \in 1..Len(trace_logs.logs) :
          Len(trace_logs.logs[k].stack_trace) > StackDisplayLimit


\* the run was ended with the notice "text"
RejectedWith(text) == pc = "done" /\ console = <<Notice(text)>>

\* C17: in a run whose identifier is empty once stripped, or whose path
\* does not exist, nothing of the core is ever called: not the scan of the
\* directory, not the extraction, not the merge, not the language model;
\* no line is read, no result exists and no text is formatted.
C17_RejectedBeforeCore ==
    (~IdAccepted \/ target_kind = "missing") =>
        /\ calls = <<>>
        /\ pc \in {"ask", "done"}
        /\ ~HasResult
        /\ lines = <<>> /\ logs = <<>>
        /\ log_files = <<>> /\ file_results = <<>>
        /\ log_content = <<>>
        /\ pc = "done" =>
              \/ ~IdAccepted /\ RejectedWith("trace id must not be empty")
              \/ IdAccepted /\ RejectedWith("path does not exist")

\* an identifier of whitespace was rejected, the path being a file with
\* lines
C17_Witness ==
    /\ RejectedWith("trace id must not be empty")
    /\ trace_id # <<>>
    /\ target_kind = "file"
    /\ target_files[1].content # <<>>

\* a path that does not exist was rejected, the identifier being accepted
C17_WitnessMissingPath ==
    /\ RejectedWith("path does not exist")
    /\ IdAccepted


\* the entries of a sequence whose sort key is that of the entry x, in the
\* order of the sequence
SameKeyAs(entries, x) ==
    SelectSeq(entries,
              LAMBDA e : KeyTable[e.timestamp] = KeyTable[x.timestamp])

\* C18: the sort of the merge is stable: the entries whose parsed
\* timestamps are equal stand in the merged result in the order they have
\* in the concatenation, that is in the order of the files and, within a
\* file, of the lines.
C18_SortIsStable ==
    /\ pc = "scan" => all_logs = Concatenation(Len(file_results))
    /\ pc = "returned" =>
          \A k \in 1..Len(trace_logs.logs) :
              SameKeyAs(trace_logs.logs, trace_logs.logs[k])
                  = SameKeyAs(Concatenation(Len(log_files)), trace_logs.logs[k])

\* two entries of equal parsed timestamps, written differently, in a merge
\* that the sort has reordered
C18_Witness ==
    /\ pc = "returned"
    /\ trace_logs.logs # Concatenation(Len(log_files))
    /\ \E a, b \in 1..Len(trace_logs.logs) :
          /\ a < b
          /\ trace_logs.logs[a].timestamp # trace_logs.logs[b].timestamp
          /\ HasParsedTimestamp[trace_logs.logs[a].timestamp]
          /\ KeyTable[trace_logs.logs[a].timestamp]
                 = KeyTable[trace_logs.logs[b].timestamp]

\* the three shapes of a timestamp: "d" is a digit, "s" is whitespace, once
\* or more, every other character is itself
TimestampShapes ==
    {<<"d", "d", "d", "d", "-", "d", "d", "-", "d", "d", "s",
       "d", "d", ":", "d", "d", ":", "d", "d">>,
     <<"d", "d", "d", "d", "-", "d", "d", "-", "d", "d", "T",
       "d", "d", ":", "d", "d", ":", "d", "d">>,
     <<"d", "d", "/", "d", "d", "/", "d", "d", "d", "d", "s",
       "d", "d", ":", "d", "d", ":", "d", "d">>}

\* the line has the shape from its character k on, at position p
RECURSIVE ShapedFrom(_, _, _, _)
ShapedFrom(shape, k, line, p) ==
    IF k > Len(shape) THEN TRUE
    ELSE IF p > Len(line) THEN FALSE
    ELSE CASE shape[k] = "d" ->
                /\ IsDigit(line[p])
                /\ ShapedFrom(shape, k + 1, line, p + 1)
           [] shape[k] = "s" ->
                /\ line[p] \in Whitespace
                /\ \/ ShapedFrom(shape, k, line, p + 1)
                   \/ ShapedFrom(shape, k + 1, line, p + 1)
           [] OTHER ->
                /\ line[p] = shape[k]
                /\ ShapedFrom(shape, k + 1, line, p + 1)

\* the lines that hold a text of one of the three shapes
ShapedLines ==
    {line \in InputLines :
        \E shape \in TimestampShapes, p \in 1..Len(line) :
            ShapedFrom(shape, 1, line, p)}

\* the text stands in the line, character by character
StandsIn(text, line) ==
    \E p \in 1..(Len(line) - Len(text) + 1) :
        SubSeq(line, p, p + Len(text) - 1) = text

\* the line of its file the entry of a merge was made of
SourceLine(e) ==
    LET k == CHOOSE n \in 1..Len(log_files) :
                 basename(log_files[n].path) = e.source_file
    IN  log_files[k].content[e.line_number]

\* the timestamp of the entry is a text that strptime accepts in no format
Unparsed(e) == ~HasParsedTimestamp[e.timestamp]

\* C19 as stated: every entry of the merge whose timestamp strptime accepts
\* in no format has the timestamp "Unknown".
C19_AsStated ==
    pc = "returned" =>
        \A k \in 1..Len(trace_logs.logs) :
            Unparsed(trace_logs.logs[k]) => IsUnknown(trace_logs.logs[k])

\* C19: the timestamp of an entry is "Unknown" exactly if its line holds no
\* text of the three shapes, and is otherwise a text that stands in the
\* line, kept as it is also when it denotes no date and time (month 13); an
\* entry whose timestamp strptime accepts in no format has the sort key
\* datetime.min, as every entry that stands before it in the merge.
C19_UnparsedKeepsItsText ==
    pc = "returned" =>
        \A k \in 1..Len(trace_logs.logs) :
            LET e == trace_logs.logs[k]
            IN  /\ IsUnknown(e) <=> SourceLine(e) \notin ShapedLines
                /\ ~IsUnknown(e) => StandsIn(e.timestamp, SourceLine(e))
                /\ SourceLine(e) = Line_month13 =>
                      /\ Unparsed(e)
                      /\ e.timestamp = SubSeq(Line_month13, 1, 19)
                /\ Unparsed(e) =>
                      \A j \in 1..k :
                          KeyTable[trace_logs.logs[j].timestamp] = datetime_min

\* an entry of month 13 was sorted before an entry with a parsed timestamp
\* that the concatenation had before it
C19_Witness ==
    /\ pc = "returned"
    /\ Len(trace_logs.logs) >= 2
    /\ SourceLine(trace_logs.logs[1]) = Line_month13
    /\ HasParsedTimestamp[Concatenation(Len(log_files))[1].timestamp]


(***************************************************************************)
(* The source tags of a run, checked under SpecRun.                        *)
(***************************************************************************)
\* the entry is tagged with the name of file n of the directory, which is
\* listed as a source and whose extraction gave the entry
TaggedWith(e, n) ==
    /\ e.source_file = basename(log_files[n].path)
    /\ \E j \in 1..Len(trace_logs.source_files) :
          trace_logs.source_files[j] = log_files[n].path
    /\ \E j \in 1..Len(file_results[n].logs) :
          file_results[n].logs[j] = Untagged(e)

\* C20 as stated: an entry of a result is tagged with its source exactly if
\* more than one file was merged.
C20_AsStated ==
    HasResult =>
        \A k \in 1..Len(trace_logs.logs) :
            HasSourceFile(trace_logs.logs[k]) <=> Len(log_files) > 1

\* C20: every entry of a merge is tagged with the name of the file it is
\* of, whatever the number of files of the directory, one included; the
\* entries of single-file mode are not tagged.
C20_TaggedInEveryMerge ==
    HasResult =>
        \A k \in 1..Len(trace_logs.logs) :
            /\ target_kind = "file" => ~HasSourceFile(trace_logs.logs[k])
            /\ target_kind = "directory" =>
                  /\ HasSourceFile(trace_logs.logs[k])
                  /\ \E n \in 1..Len(log_files) :
                        TaggedWith(trace_logs.logs[k], n)

\* the merge of a directory of one file returned tagged entries
C20_Witness ==
    /\ HasResult
    /\ target_kind = "directory"
    /\ Len(log_files) = 1
    /\ trace_logs.logs # <<>>
    /\ HasSourceFile(trace_logs.logs[1])

\* single-file mode returned entries without tag
C20_WitnessSingleFile ==
    /\ HasResult
    /\ target_kind = "file"
    /\ trace_logs.logs # <<>>
    /\ ~HasSourceFile(trace_logs.logs[1])


(***************************************************************************)
(* Properties of the classification of a line, checked under SpecClassify. *)
(***************************************************************************)
\* the four keywords in their precedence
LevelKeywords == <<T_ERROR, T_WARN, T_INFO, T_DEBUG>>

\* the first position of the line at which the text stands
FirstAt(text, line) ==
    CHOOSE p \in 1..Len(line) :
        /\ SubSeq(line, p, p + Len(text) - 1) = text
        /\ \A q \in 1..(p - 1) : SubSeq(line, q, q + Len(text) - 1) # text

\* C21: the level of a line is the first of ERROR, WARN, INFO, DEBUG, in
\* this precedence, that stands anywhere in the line in upper case, and
\* UNKNOWN exactly if none of the four does; a line with INFO and ERROR is
\* ERROR, one with WARN and INFO (and no ERROR before them in the
\* precedence) is WARN.
C21_LevelByPrecedence ==
    pc = "classified" =>
        /\ \A k \in 1..Len(LevelKeywords) :
              logs[1].level = LevelKeywords[k]
                  <=> /\ StandsIn(LevelKeywords[k], lines[1])
                      /\ \A j \in 1..(k - 1) : ~StandsIn(LevelKeywords[j], lines[1])
        /\ logs[1].level = T_UNKNOWN
              <=> \A k \in 1..Len(LevelKeywords) : ~StandsIn(LevelKeywords[k], lines[1])
        /\ (StandsIn(T_INFO, lines[1]) /\ StandsIn(T_ERROR, lines[1]))
              => logs[1].level = T_ERROR
        /\ (/\ StandsIn(T_WARN, lines[1])
            /\ StandsIn(T_INFO, lines[1])
            /\ ~StandsIn(T_ERROR, lines[1]))
              => logs[1].level = T_WARN

\* a line with INFO before ERROR was classified as ERROR
C21_Witness ==
    /\ pc = "classified"
    /\ StandsIn(T_INFO, lines[1])
    /\ StandsIn(T_ERROR, lines[1])
    /\ FirstAt(T_INFO, lines[1]) < FirstAt(T_ERROR, lines[1])
    /\ logs[1].level = T_ERROR

\* a line with none of the keywords in upper case was classified as UNKNOWN
C21_WitnessUnknown ==
    /\ pc = "classified"
    /\ StandsIn(Tok_error, lines[1])
    /\ logs[1].level = T_UNKNOWN


\* the three shapes of a timestamp in the order they are tried
ShapeList ==
    <<<<"d", "d", "d", "d", "-", "d", "d", "-", "d", "d", "s",
        "d", "d", ":", "d", "d", ":", "d", "d">>,
      <<"d", "d", "d", "d", "-", "d", "d", "-", "d", "d", "T",
        "d", "d", ":", "d", "d", ":", "d", "d">>,
      <<"d", "d", "/", "d", "d", "/", "d", "d", "d", "d", "s",
        "d", "d", ":", "d", "d", ":", "d", "d">>>>

\* the text from its character p on has the shape from its character k on,
\* and nothing is left of either
RECURSIVE ShapedWhole(_, _, _, _)
ShapedWhole(shape, k, text, p) ==
    IF k > Len(shape) THEN p > Len(text)
    ELSE IF p > Len(text) THEN FALSE
    ELSE CASE shape[k] = "d" ->
                /\ IsDigit(text[p])
                /\ ShapedWhole(shape, k + 1, text, p + 1)
           [] shape[k] = "s" ->
                /\ text[p] \in Whitespace
                /\ \/ ShapedWhole(shape, k, text, p + 1)
                   \/ ShapedWhole(shape, k + 1, text, p + 1)
           [] OTHER ->
                /\ text[p] = shape[k]
                /\ ShapedWhole(shape, k + 1, text, p + 1)

\* the positions of the line at which a text of the shape begins
ShapeStarts(shape, line) ==
    {p \in 1..Len(line) : ShapedFrom(shape, 1, line, p)}

\* the text is the one of the shape that begins first in the line
FirstOfShape(text, shape, line) ==
    /\ ShapedWhole(shape, 1, text, 1)
    /\ \E p \in ShapeStarts(shape, line) :
          /\ SubSeq(line, p, p + Len(text) - 1) = text
          /\ \A q \in ShapeStarts(shape, line) : p <= q

\* C22: the timestamp of a line is "Unknown" exactly if no text of the
\* three shapes stands in it; otherwise it is, as it stands in the line, the
\* text of the first shape in the order (a) date, space, time, (b) date, T,
\* time, (c) date with slashes, space, time, of which one stands anywhere in
\* the line, even when a text of a later shape stands before it.
C22_TimestampByFormatOrder ==
    pc = "classified" =>
        /\ logs[1].timestamp = Unknown
              <=> \A k \in 1..Len(ShapeList) : ShapeStarts(ShapeList[k], lines[1]) = {}
        /\ \A k \in 1..Len(ShapeList) :
              (/\ ShapeStarts(ShapeList[k], lines[1]) # {}
               /\ \A j \in 1..(k - 1) : ShapeStarts(ShapeList[j], lines[1]) = {})
              => FirstOfShape(logs[1].timestamp, ShapeList[k], lines[1])

\* a line with a timestamp of shape (c) before one of shape (a) gave the
\* one of shape (a)
C22_Witness ==
    /\ pc = "classified"
    /\ lines[1] = Tok_DateSlash \o <<" ">> \o Tok_DateSpace \o <<" ", "\n">>
    /\ logs[1].timestamp = Tok_DateSpace

\* a line with a date without time gave "Unknown"
C22_WitnessUnknown ==
    /\ pc = "classified"
    /\ StandsIn(Tok_DateOnly, lines[1])
    /\ logs[1].timestamp = Unknown


\* the name under which the call of the language model is recorded
LlmCall == "llm.analyze_error_log"

\* the positions of calls at which the language model is called
LlmCalls == {k \in 1..Len(calls) : calls[k] = LlmCall}

\* the answers the user has given to the prompt of line 145
Answers ==
    {console[k].answer : k \in {n \in 1..Len(console) : console[n].kind = "confirm"}}

\* the extraction or the merge has returned a result without entries
NothingFound == HasResult /\ trace_logs.logs = <<>>

\* the last n calls
LastCalls(n) == SubSeq(calls, Len(calls) - n + 1, Len(calls))

\* C30: in every run the language model is called at most once; when it is
\* called, the extraction or the merge has returned a result with entries,
\* the statistics and the entries of that result were displayed, in this
\* order, and the user has answered the prompt with yes; it is called in the
\* step in which the user answers. In a run whose result has no entry, and
\* in a run in which the user answers no, it is never called.
C30_AnalysisOnlyWhenConfirmed ==
    /\ [](/\ Cardinality(LlmCalls) <= 1
          /\ Called(LlmCall) =>
                /\ pc = "done"
                /\ trace_logs = RunResult
                /\ trace_logs.logs # <<>>
                /\ Len(calls) >= 5
                /\ LastCalls(4) = <<"_display_trace_statistics", "_display_trace_logs",
                                    "_format_trace_for_analysis", LlmCall>>
                /\ Len(Panels) >= 1
                /\ Answers = {TRUE}
                /\ log_content = _format_trace_for_analysis(trace_logs, trace_id))
    /\ [][(~Called(LlmCall) /\ Called(LlmCall)') =>
              /\ pc = "confirm"
              /\ Called("_display_trace_logs")
              /\ Answers = {}
              /\ trace_logs' = trace_logs]_vars
    /\ []((NothingFound \/ FALSE \in Answers) => [](~Called(LlmCall)))

\* a run over a directory in which the user confirmed and the language
\* model was called
C30_Witness ==
    /\ pc = "done"
    /\ target_kind = "directory"
    /\ Cardinality(LlmCalls) = 1
    /\ TRUE \in Answers
    /\ Len(trace_logs.logs) >= 2

\* a run in which the entries were displayed and the user declined
C30_WitnessDeclined ==
    /\ pc = "done"
    /\ Called("_display_trace_logs")
    /\ Answers = {FALSE}
    /\ LlmCalls = {}
    /\ log_content = <<>>

\* a run that ended because the result held no entry
C30_WitnessNothingFound ==
    /\ pc = "done"
    /\ NothingFound
    /\ target_kind = "file"
    /\ target_files[1].content # <<>>
    /\ LlmCalls = {}
    /\ ~Called("_display_trace_logs")


(***************************************************************************)
(* Termination of the two loops, checked under SpecRunFair.                *)
(***************************************************************************)
\* C24: every call runs to completion: each iteration of the extraction
\* loop leaves the line index greater than it was, also when the inner loop
\* of a stack trace has stepped it back by one, and never beyond the number
\* of lines; each iteration of the directory loop takes the next file of
\* the list, once, and keeps what the files before it gave; and a call that
\* was started returns.
C24_RunsToCompletion ==
    /\ [][(pc = "loop" /\ pc' = "loop") => (i < i' /\ i' <= Len(lines))]_vars
    /\ [][(pc = "scan" /\ pc' = "scan") =>
              /\ file_idx' = file_idx + 1
              /\ file_results' =
                     Append(file_results,
                            _parse_trace_logs(log_files[file_idx + 1], trace_id))]_vars
    /\ (pc \in {"read", "loop", "scan"}) ~> (pc = "returned")

\* the extraction loop ended behind a line whose iteration took a stack
\* trace and stepped back
C24_Witness ==
    /\ pc = "returned"
    /\ target_kind = "file"
    /\ i = Len(lines)
    /\ \E k \in 1..Len(logs) :
          /\ logs[k].stack_trace # <<>>
          /\ logs[k].line_number + Len(logs[k].stack_trace) < Len(lines)

\* the directory loop ended behind the second of two files
C24_WitnessDirectory ==
    /\ pc = "returned"
    /\ target_kind = "directory"
    /\ Len(log_files) = 2
    /\ file_idx = 2

(***************************************************************************)
(* The merge when the sort fails, checked under SpecSortFails.             *)
(***************************************************************************)
\* the sort of the merge has failed
SortHasFailed ==
    \E k \in 1..Len(console) :
        console[k] = Notice("sorting failed, original order kept")

\* C23: when the sort fails the merge still returns a result: its entries
\* are those of the concatenation, in that order and as many, and the
\* counts, total_logs and source_files are what they are otherwise.
C23_FailedSortKeepsConcatenation ==
    (pc = "returned" /\ SortHasFailed) =>
        /\ HasResult
        /\ trace_logs.logs = Concatenation(Len(log_files))
        /\ trace_logs.total_logs = EntryCount(Len(log_files))
        /\ trace_logs.error_count = SumOver("error_count", Len(log_files))
        /\ trace_logs.warn_count = SumOver("warn_count", Len(log_files))
        /\ trace_logs.info_count = SumOver("info_count", Len(log_files))
        /\ trace_logs.source_files = source_files
        /\ \A k \in 1..Len(log_files) :
              file_results[k].logs # <<>> <=> ListedAt(log_files[k].path) # {}

\* the sort failed in a merge of two files whose entries were out of order
C23_Witness ==
    /\ pc = "returned"
    /\ SortHasFailed
    /\ Len(trace_logs.source_files) = 2
    /\ ~ChronologicallySorted(trace_logs.logs)


(***************************************************************************)
(* Properties of the scan of a directory, checked under SpecScan.          *)
(***************************************************************************)
\* the last four characters of the name are .log, .txt or .out
IsWanted(name) ==
    /\ Len(name) >= 4
    /\ SubSeq(name, Len(name) - 3, Len(name))
           \in {<<".", "l", "o", "g">>, <<".", "t", "x", "t">>, <<".", "o", "u", "t">>}

\* the paths of the wanted files of the tree, at every depth
WantedPaths ==
    UNION {{dir \o <<"/">> \o name : name \in {n \in tree[dir] : IsWanted(n)}} :
               dir \in TreeDirs}

\* the string a comes before the string b, character by character from
\* place k on
RECURSIVE BeforeFrom(_, _, _)
BeforeFrom(a, b, k) ==
    IF k > Len(b) THEN FALSE
    ELSE IF k > Len(a) THEN TRUE
    ELSE IF a[k] = b[k] THEN BeforeFrom(a, b, k + 1)
    ELSE CodePoint(a[k]) < CodePoint(b[k])

\* the scan has failed
ScanHasFailed ==
    \E k \in 1..Len(console) :
        console[k] = Notice("scanning the directory failed")

\* C25: the scan returns the paths of the files of the tree, at every
\* depth, whose name ends in .log, .txt or .out, and no other, each once,
\* in ascending order of the paths as strings; it returns the empty list
\* when no name ends so and when the walk has raised.
C25_ScanReturnsWantedSorted ==
    pc = "scanned" =>
        /\ ScanHasFailed => log_files = <<>>
        /\ ~ScanHasFailed =>
              /\ {log_files[k] : k \in 1..Len(log_files)} = WantedPaths
              /\ Len(log_files) = Cardinality(WantedPaths)
              /\ \A k \in 1..(Len(log_files) - 1) :
                    BeforeFrom(log_files[k], log_files[k + 1], 1)
        /\ WantedPaths = {} => log_files = <<>>

\* a file three directories deep was returned behind one of the first
\* directory, and a file of another ending was left out
C25_Witness ==
    /\ pc = "scanned"
    /\ ~ScanHasFailed
    /\ Len(log_files) = 2
    /\ log_files[1] = Dir_logs \o <<"/">> \o Name_a_b_txt
    /\ log_files[2] = Dir_logs_a_b \o <<"/">> \o Name_a_log
    /\ \E dir \in TreeDirs : tree[dir] \cap {Name_d_LOG, Name_e_log_gz, Name_log} # {}

\* the walk raised with files already found
C25_WitnessFailed ==
    /\ pc = "scanned"
    /\ ScanHasFailed
    /\ WantedPaths # {}
    /\ walk = <<>>


====
